---- MODULE Spec2Model ----
(***************************************************************************)
(* Model of the go-tigergraph migration runner (package tigergraph):       *)
(* Migrate, CheckIsInitialised, GetCurrentMigrationNumber,                  *)
(* getMigrationsBetweenVersions, tryMigrateStep, commitMigrationVersion,    *)
(* RunGSQL and Upsert, against a remote TigerGraph instance that holds the  *)
(* ClientMetadata graph (Migration vertices keyed by their primary id).    *)
(*                                                                         *)
(* Go strings are sequences of one-character strings, so that parsing,      *)
(* formatting, prefix/suffix tests and byte-wise comparison are computed    *)
(* the way the code computes them.                                          *)
(***************************************************************************)
EXTENDS Integers, Sequences, FiniteSets, TLC

\* ------------------------------------------------------------------ bounds
\* highest migration number a caller asks for
MaxVersion == 2
\* wall-clock seconds the model's clock can reach (time.Now)
MaxTime == 1
\* number of Migrate calls in one behaviour
MaxRuns == 1
\* the widest zero padding of a version string a caller passes
MaxPad == 4
\* the furthest apart the two versions of one resolution are
MaxSpan == 3
\* the most lines of the body of a GSQL response
MaxLines == 3
\* the most calls of Auth
MaxAuth == 3

\* ------------------------------------------------------- program constants
\* strconv.ParseInt(s, 10, 32): the largest value of the 32-bit range
MaxInt32 == 2147483647
\* fmt.Sprintf("%03d", i): the minimum width
PadWidth == 3

\* --------------------------------------------------------------- strings
\* The bytes the model's strings are made of, in ascending byte order.
Alphabet ==
    << "+", "-", ".", "0", "1", "2", "3", "4", "5", "6", "7", "8", "9", "_",
       "a", "b", "c", "d", "e", "f", "g", "h", "i", "j", "k", "l", "m", "n",
       "o", "p", "q", "r", "s", "t", "u", "v", "w", "x", "y", "z" >>

CharCode(c) == CHOOSE i \in 1..Len(Alphabet) : Alphabet[i] = c

DigitChars == << "0", "1", "2", "3", "4", "5", "6", "7", "8", "9" >>

IsDigit(c) == \E i \in 1..10 : DigitChars[i] = c

DigitOf(c) == (CHOOSE i \in 1..10 : DigitChars[i] = c) - 1

\* Go's string comparison a < b: byte-wise lexicographic.
RECURSIVE StrLess(_, _)
StrLess(a, b) ==
    IF b = << >> THEN FALSE
    ELSE IF a = << >> THEN TRUE
    ELSE IF Head(a) # Head(b) THEN CharCode(Head(a)) < CharCode(Head(b))
    ELSE StrLess(Tail(a), Tail(b))

\* strings.HasPrefix(s, prefix)
HasPrefix(s, prefix) ==
    /\ Len(s) >= Len(prefix)
    /\ SubSeq(s, 1, Len(prefix)) = prefix

\* strings.HasSuffix(s, suffix)
HasSuffix(s, suffix) ==
    /\ Len(s) >= Len(suffix)
    /\ SubSeq(s, Len(s) - Len(suffix) + 1, Len(s)) = suffix

\* --------------------------------------------------------------- numbers
RECURSIVE Digits(_)
Digits(n) ==
    IF n < 10 THEN << DigitChars[n + 1] >>
    ELSE Digits(n \div 10) \o << DigitChars[(n % 10) + 1] >>

RECURSIVE DigitsVal(_)
DigitsVal(s) ==
    IF s = << >> THEN 0
    ELSE DigitsVal(SubSeq(s, 1, Len(s) - 1)) * 10 + DigitOf(s[Len(s)])

RECURSIVE StripZeros(_)
StripZeros(s) ==
    IF Len(s) > 1 /\ Head(s) = "0" THEN StripZeros(Tail(s)) ELSE s

\* The magnitude limit of the 32-bit range: 2147483647, and one more for a
\* negative number.
RangeLimit(neg) == Digits(MaxInt32 \div 10) \o (IF neg THEN << "8" >> ELSE << "7" >>)

\* strconv.ParseInt(s, 10, 32): an optional sign, then one or more decimal
\* digits, the value within the 32-bit range; anything else is an error.
ParseInt(s) ==
    LET signed == s # << >> /\ Head(s) \in {"+", "-"}
        neg    == signed /\ Head(s) = "-"
        body   == IF signed THEN Tail(s) ELSE s
        syntax == body # << >> /\ \A i \in 1..Len(body) : IsDigit(body[i])
        mag    == IF syntax THEN StripZeros(body) ELSE << "0" >>
        range  == \/ Len(mag) < Len(RangeLimit(neg))
                  \/ Len(mag) = Len(RangeLimit(neg)) /\ ~StrLess(RangeLimit(neg), mag)
        val    == IF neg /\ mag = RangeLimit(TRUE) THEN -MaxInt32 - 1
                  ELSE IF neg THEN -DigitsVal(mag) ELSE DigitsVal(mag)
    IN  IF syntax /\ range
        THEN [ok |-> TRUE, val |-> val]
        ELSE [ok |-> FALSE, val |-> 0]

RECURSIVE PadLeft(_, _)
PadLeft(s, w) == IF Len(s) >= w THEN s ELSE PadLeft(<< "0" >> \o s, w)

\* variant: the number is rendered without padding, as by "%d"
SprintfD(i) ==
    IF i >= 0 THEN Digits(i) ELSE << "-" >> \o Digits(-i)

\* fmt.Sprintf("%03d", i): zero padded to width 3, the sign counted in it.
Sprintf03d(i) ==
    IF i >= 0 THEN PadLeft(Digits(i), PadWidth)
    ELSE << "-" >> \o PadLeft(Digits(-i), PadWidth - 1)

\* ---------------------------------------------------------------- errors
\* An error is the chain of its wrappers, outermost first; nil is empty.
\* A link is the message template and the values formatted into it.
NoErr == << >>

Sentinel(name) == << [msg |-> name, args |-> << >>] >>

ErrInvalidMigrationNumber == Sentinel("migration number was invalid")
ErrUnknownInitialisationCheckFailure == Sentinel("initialisation check failed for an unknown reason")
ErrTigerGraphSchemaSetUpFailed == Sentinel("failed to set up schema in tiger graph")
ErrGSQLFailure == Sentinel("failed to execute GSQL")
ErrRequestFailed == Sentinel("failed request")
ErrNonOK == Sentinel("TigerGraph returned non-OK status code")
ErrTigerGraphError == Sentinel("error in the response body")

\* errors.Is(err, target)
ErrorIs(err, target) == \E i \in 1..Len(err) : err[i] = target[1]

\* fmt.Errorf(template + ": %w", args..., err)
Wrap(template, args, err) == << [msg |-> template, args |-> args] >> \o err

\* ----------------------------------------------------- version arithmetic
ModeChars(mode) ==
    CASE mode = "up"   -> << "u", "p" >>
      [] mode = "down" -> << "d", "o", "w", "n" >>
      [] mode = "don"  -> << "d", "o", "n" >>
      [] OTHER         -> << >>

RECURSIVE InsertDesc(_, _)
InsertDesc(x, s) ==
    IF s = << >> THEN << x >>
    ELSE IF StrLess(Head(s), x) THEN << x >> \o s
    ELSE << Head(s) >> \o InsertDesc(x, Tail(s))

\* sort.Slice(result, func(i, j) bool { return result[i] > result[j] })
RECURSIVE SortSliceDesc(_)
SortSliceDesc(s) ==
    IF s = << >> THEN s ELSE InsertDesc(Head(s), SortSliceDesc(Tail(s)))

\* variant: an empty from stands for version 000
EmptyFromZero == << "0", "0", "0" >>

\* the "-001" that stands for an empty from
EmptyFrom == << "-", "0", "0", "1" >>

\* variant: the loop runs from minInt to maxInt - 1
VersionRangeFromMin(minInt, maxInt) ==
    [k \in 1..(IF maxInt > minInt THEN maxInt - minInt ELSE 0) |-> Sprintf03d(minInt + k - 1)]

\* for i := minInt + 1; i <= maxInt; i++ { append(result, Sprintf("%03d", i)) }
VersionRange(minInt, maxInt) ==
    [k \in 1..(IF maxInt > minInt THEN maxInt - minInt ELSE 0) |-> Sprintf03d(minInt + k)]

\* variant: equal versions count as a way down
getMigrationsDownWhenEqual(from, to) ==
    LET failed  == [result |-> << >>, mode |-> "", err |-> ErrInvalidMigrationNumber]
        from1   == IF from = << >> THEN EmptyFrom ELSE from
        fromInt == ParseInt(from1)
        toInt   == ParseInt(to)
        minInt  == IF toInt.val < fromInt.val THEN toInt.val ELSE fromInt.val
        maxInt  == IF fromInt.val > toInt.val THEN fromInt.val ELSE toInt.val
        result  == VersionRange(minInt, maxInt)
    IN  IF to = << >> THEN failed
        ELSE IF ~fromInt.ok THEN failed
        ELSE IF ~toInt.ok THEN failed
        ELSE IF fromInt.val >= toInt.val
             THEN [result |-> SortSliceDesc(result), mode |-> "down", err |-> NoErr]
             ELSE [result |-> result, mode |-> "up", err |-> NoErr]

\* variant: the error of parsing to is dropped
getMigrationsUncheckedTo(from, to) ==
    LET failed  == [result |-> << >>, mode |-> "", err |-> ErrInvalidMigrationNumber]
        from1   == IF from = << >> THEN EmptyFrom ELSE from
        fromInt == ParseInt(from1)
        toInt   == ParseInt(to)
        minInt  == IF toInt.val < fromInt.val THEN toInt.val ELSE fromInt.val
        maxInt  == IF fromInt.val > toInt.val THEN fromInt.val ELSE toInt.val
        result  == VersionRange(minInt, maxInt)
    IN  IF to = << >> THEN failed
        ELSE IF ~fromInt.ok THEN failed
        ELSE IF fromInt.val > toInt.val
             THEN [result |-> SortSliceDesc(result), mode |-> "down", err |-> NoErr]
             ELSE [result |-> result, mode |-> "up", err |-> NoErr]

getMigrationsBetweenVersions(from, to) ==
    LET failed  == [result |-> << >>, mode |-> "", err |-> ErrInvalidMigrationNumber]
        from1   == IF from = << >> THEN EmptyFrom ELSE from
        fromInt == ParseInt(from1)
        toInt   == ParseInt(to)
        minInt  == IF toInt.val < fromInt.val THEN toInt.val ELSE fromInt.val
        maxInt  == IF fromInt.val > toInt.val THEN fromInt.val ELSE toInt.val
        result  == VersionRange(minInt, maxInt)
    IN  IF to = << >> THEN failed
        ELSE IF ~fromInt.ok THEN failed
        ELSE IF ~toInt.ok THEN failed
        ELSE IF fromInt.val > toInt.val
             THEN [result |-> SortSliceDesc(result), mode |-> "down", err |-> NoErr]
             ELSE [result |-> result, mode |-> "up", err |-> NoErr]

\* variant: the minimum version has nothing below it
decrementWithFloor(n) ==
    LET asInt == ParseInt(n)
    IN  IF ~asInt.ok \/ asInt.val - 1 < 0 THEN [result |-> << >>, err |-> ErrInvalidMigrationNumber]
        ELSE [result |-> Sprintf03d(asInt.val - 1), err |-> NoErr]

decrementMigrationNumber(n) ==
    LET asInt == ParseInt(n)
    IN  IF ~asInt.ok THEN [result |-> << >>, err |-> ErrInvalidMigrationNumber]
        ELSE [result |-> Sprintf03d(asInt.val - 1), err |-> NoErr]

\* ------------------------------------------------------ migration source
GsqlExt == << ".", "g", "s", "q", "l" >>

\* A migration file of the directory: "<number>_<name>.<mode>.gsql"
FileName(number, name, mode) ==
    number \o << "_" >> \o name \o << "." >> \o ModeChars(mode) \o GsqlExt

RECURSIVE SortedNames(_)
SortedNames(S) ==
    IF S = {} THEN << >>
    ELSE LET least == CHOOSE x \in S : \A y \in S \ {x} : StrLess(x, y)
         IN  << least >> \o SortedNames(S \ {least})

\* What a step can find at migrationFileDir when it reads the directory:
\*   "v1"    one up and one down file for every version 000..MaxVersion
\*   "gap"   the same without the files of version 001
\* any other path is no directory
MigrationDirs == {"v1", "gap"}

DirFiles(dir) ==
    LET all == { FileName(Sprintf03d(v), << "m" >>, m) : v \in 0..MaxVersion, m \in {"up", "down"} }
    IN  CASE dir = "v1"  -> all
          [] dir = "gap" -> { f \in all : ~HasPrefix(f, Sprintf03d(1) \o << "_" >>) }
          [] OTHER       -> {}

\* the entries of each directory, sorted by file name
DirListing == [dir \in MigrationDirs |-> SortedNames(DirFiles(dir))]

\* os.ReadDir(migrationFileDir): the entries sorted by file name, or an error
ReadDir(dir) ==
    IF dir \notin MigrationDirs THEN [files |-> << >>, err |-> Sentinel("no such file or directory")]
    ELSE [files |-> DirListing[dir], err |-> NoErr]

\* strings.HasPrefix(file.Name(), number+"_") && strings.HasSuffix(file.Name(), mode+".gsql")
FileMatches(file, number, mode) ==
    /\ HasPrefix(file, number \o << "_" >>)
    /\ HasSuffix(file, ModeChars(mode) \o GsqlExt)

\* the file tryMigrateStep sends: the first entry that matches, << >> if none
FirstMatch(files, number, mode) ==
    LET hits == { i \in 1..Len(files) : FileMatches(files[i], number, mode) }
    IN  IF hits = {} THEN << >>
        ELSE files[CHOOSE i \in hits : \A j \in hits : i <= j]

\* ------------------------------------------------------------- RunGSQL
SuccessString == "__GSQL__RETURN__CODE__,0"
SemanticFailureString == "Semantic Check Fails:"

\* A response of the GSQL file endpoint: the transport verdict, the HTTP
\* status and the body split at "\n"; a line is the phrases it is made
\* of, the empty line none.
GsqlOK == [sent |-> TRUE, status |-> "200", lines |-> << << "Installing query..." >>, << >>, << SuccessString >>, << >> >>]
GsqlTransportFailure == [sent |-> FALSE, status |-> "", lines |-> << >>]
GsqlNon200 == [sent |-> TRUE, status |-> "400", lines |-> << << >> >>]
GsqlFailed == [sent |-> TRUE, status |-> "200", lines |-> << << "Failed to install queries." >>, << "__GSQL__RETURN__CODE__,211" >>, << >> >>]
GsqlSemantic == [sent |-> TRUE, status |-> "200", lines |-> << << SemanticFailureString, "These queries could not be found anywhere: [non_existent]." >>, << SuccessString >>, << >> >>]
GsqlNoCode == [sent |-> TRUE, status |-> "200", lines |-> << << "Graph already exists." >> >>]

GsqlResponses == {GsqlOK, GsqlTransportFailure, GsqlNon200, GsqlFailed, GsqlSemantic, GsqlNoCode}

\* the answers a script of a Migrate call gets: success and one of each
\* kind of failure
ScriptResponses == {GsqlOK, GsqlTransportFailure, GsqlNon200, GsqlFailed}

\* strings.Contains(respString, phrase): the phrase is somewhere in a line
Contains(lines, phrase) ==
    \E i \in 1..Len(lines) : \E j \in 1..Len(lines[i]) : lines[i][j] = phrase

\* variant: a success code settles it, the body is not scanned
RunGSQLCodeFirst(resp) ==
    IF ~resp.sent THEN ErrRequestFailed
    ELSE IF resp.status # "200" THEN Wrap("http request came back with non 200 status code", << >>, ErrNonOK)
    ELSE IF Len(resp.lines) < 2 THEN Wrap("not enough returned lines in GSQL response", << >>, ErrGSQLFailure)
    ELSE IF resp.lines[Len(resp.lines) - 1] = << SuccessString >> THEN NoErr
    ELSE IF Contains(resp.lines, SemanticFailureString)
         THEN Wrap("a semantic failure was found in the response", << >>, ErrGSQLFailure)
    ELSE Wrap("GSQL response did not contain expected success code", << >>, ErrGSQLFailure)

RunGSQL(resp) ==
    IF ~resp.sent THEN ErrRequestFailed
    ELSE IF resp.status # "200" THEN Wrap("http request came back with non 200 status code", << >>, ErrNonOK)
    ELSE IF Len(resp.lines) < 2 THEN Wrap("not enough returned lines in GSQL response", << >>, ErrGSQLFailure)
    ELSE IF Contains(resp.lines, SemanticFailureString)
         THEN Wrap("a semantic failure was found in the response", << >>, ErrGSQLFailure)
    ELSE IF resp.lines[Len(resp.lines) - 1] # << SuccessString >>
         THEN Wrap("GSQL response did not contain expected success code", << >>, ErrGSQLFailure)
    ELSE NoErr

\* ------------------------------------------------- CheckIsInitialised
MetadataGraphName == "ClientMetadata"
ExpectedFailurePrefix == << "Graph", "name", MetadataGraphName, "cannot", "be", "found." >>
\* A response of the schema metadata endpoint as GetGraphMetadata returns
\* it: its error, or Error, Message (a sequence of words) and Results.
MetaFound == [err |-> NoErr, Error |-> FALSE, Message |-> << >>, hasResults |-> TRUE, GraphName |-> MetadataGraphName]
MetaNotFound == [err |-> NoErr, Error |-> TRUE, Message |-> ExpectedFailurePrefix \o << "For", "whatever", "reason." >>, hasResults |-> FALSE, GraphName |-> ""]
MetaDenied == [err |-> NoErr, Error |-> TRUE, Message |-> << "You", "are", "not", "authenticated" >>, hasResults |-> FALSE, GraphName |-> ""]
MetaNoName == [err |-> NoErr, Error |-> FALSE, Message |-> << >>, hasResults |-> TRUE, GraphName |-> ""]
MetaUnreachable == [err |-> ErrNonOK, Error |-> FALSE, Message |-> << >>, hasResults |-> FALSE, GraphName |-> ""]

\* variant: a response without the error flag means initialised, whatever it names
CheckIsInitialisedWhateverName(meta) ==
    IF meta.err # NoErr THEN [result |-> FALSE, err |-> meta.err]
    ELSE IF ~meta.Error THEN [result |-> TRUE, err |-> NoErr]
    ELSE IF HasPrefix(meta.Message, ExpectedFailurePrefix)
         THEN [result |-> FALSE, err |-> NoErr]
    ELSE [result |-> FALSE, err |-> ErrUnknownInitialisationCheckFailure]

CheckIsInitialised(meta) ==
    IF meta.err # NoErr THEN [result |-> FALSE, err |-> meta.err]
    ELSE IF ~meta.Error /\ ~meta.hasResults
         THEN [result |-> FALSE, err |-> Sentinel("panic: nil pointer dereference")]
    ELSE IF ~meta.Error /\ meta.GraphName = MetadataGraphName
         THEN [result |-> TRUE, err |-> NoErr]
    ELSE IF HasPrefix(meta.Message, ExpectedFailurePrefix)
         THEN [result |-> FALSE, err |-> NoErr]
    ELSE [result |-> FALSE, err |-> ErrUnknownInitialisationCheckFailure]

\* ------------------------------------------------------- the remote store
Graphs == {"MyGraph", "OtherGraph"}

\* id := fmt.Sprintf("%s_%s_%s", version, mode, createdAt.Format(time.RFC3339))
MigrationID(version, mode, createdAt) == << version, mode, createdAt >>

\* The Migration vertex commitMigrationVersion puts in its payload.
MigrationVertex(graph, version, mode, createdAt) ==
    [ id               |-> MigrationID(version, mode, createdAt),
      graph_name       |-> graph,
      migration_number |-> version,
      mode             |-> mode,
      created_at       |-> createdAt ]

\* Migration vertices are keyed by PRIMARY_ID id: an upsert of an id the
\* graph holds replaces that vertex.
UpsertVertex(vertices, v) == { r \in vertices : r.id # v.id } \cup {v}

\* ORDER BY m.created_at DESC, m.migration_number DESC: a comes before b
OrderedBefore(a, b) ==
    \/ a.created_at > b.created_at
    \/ a.created_at = b.created_at /\ StrLess(b.migration_number, a.migration_number)

\* The installed query get_latest_migration: the results LIMIT 1 can print.
\* Vertices the ORDER BY does not tell apart come in either order.
get_latest_migration(vertices, graph_name) ==
    LET mine  == { m \in vertices : m.graph_name = graph_name }
        first == { m \in mine : \A o \in mine : ~OrderedBefore(o, m) }
    IN  IF mine = {} THEN { << >> } ELSE { << m >> : m \in first }

\* ------------------------------------------- GetCurrentMigrationNumber
QueryUnreachable == [err |-> ErrNonOK, Error |-> FALSE, LatestMigration |-> << >>]
QueryError == [err |-> NoErr, Error |-> TRUE, LatestMigration |-> << >>]
QueryResult(latest) == [err |-> NoErr, Error |-> FALSE, LatestMigration |-> latest]

\* variant: a down record's version is returned as it is stored
CurrentNumberWithoutDecrement(response) ==
    IF response.err # NoErr THEN [result |-> << >>, err |-> response.err]
    ELSE IF response.Error THEN [result |-> << >>, err |-> ErrTigerGraphError]
    ELSE IF Len(response.LatestMigration) = 0 THEN [result |-> << >>, err |-> NoErr]
    ELSE LET latestMigration == response.LatestMigration[1]
         IN  IF latestMigration.mode # "up" /\ latestMigration.mode # "down"
             THEN [result |-> << >>, err |-> ErrInvalidMigrationNumber]
             ELSE [result |-> latestMigration.migration_number, err |-> NoErr]

\* variant: a record whose mode is not down counts as an up record
CurrentNumberOfAnyMode(response) ==
    IF response.err # NoErr THEN [result |-> << >>, err |-> response.err]
    ELSE IF response.Error THEN [result |-> << >>, err |-> ErrTigerGraphError]
    ELSE IF Len(response.LatestMigration) = 0 THEN [result |-> << >>, err |-> NoErr]
    ELSE LET latestMigration == response.LatestMigration[1]
         IN  IF latestMigration.mode = "down"
             THEN decrementMigrationNumber(latestMigration.migration_number)
             ELSE [result |-> latestMigration.migration_number, err |-> NoErr]

GetCurrentMigrationNumber(response) ==
    IF response.err # NoErr THEN [result |-> << >>, err |-> response.err]
    ELSE IF response.Error THEN [result |-> << >>, err |-> ErrTigerGraphError]
    ELSE IF Len(response.LatestMigration) = 0 THEN [result |-> << >>, err |-> NoErr]
    ELSE LET latestMigration == response.LatestMigration[1]
         IN  IF latestMigration.mode # "up" /\ latestMigration.mode # "down"
             THEN [result |-> << >>, err |-> ErrInvalidMigrationNumber]
             ELSE IF latestMigration.mode = "down"
             THEN decrementMigrationNumber(latestMigration.migration_number)
             ELSE [result |-> latestMigration.migration_number, err |-> NoErr]

\* ------------------------------------ Upsert and commitMigrationVersion
UpsertUnreachable == [err |-> ErrNonOK, Error |-> FALSE, AcceptedVertices |-> 0]
UpsertError == [err |-> NoErr, Error |-> TRUE, AcceptedVertices |-> 0]
UpsertAccepted(n) == [err |-> NoErr, Error |-> FALSE, AcceptedVertices |-> n]

\* the accepted counts a response can report for a payload of one vertex
AcceptedCounts == {0, 1, 2}

UpsertResponses == {UpsertUnreachable, UpsertError} \cup { UpsertAccepted(n) : n \in AcceptedCounts }

\* whether the graph took the vertex of the request this response answers
Stored(response) ==
    response.err = NoErr /\ ~response.Error /\ response.AcceptedVertices >= 1

Upsert(response) ==
    IF response.err # NoErr THEN response.err
    ELSE IF response.Error
         THEN Sentinel("TigerGraph returned an error when trying to upsert data")
    ELSE NoErr

\* variant: any positive count of accepted vertices passes
AcceptedAtLeastOne(accepted) == accepted >= 1

\* if res.AcceptedVertices != 1 { return error }
AcceptedAsExpected(accepted) == accepted = 1

commitMigrationVersion(response) ==
    IF Upsert(response) # NoErr THEN Upsert(response)
    ELSE IF ~AcceptedAsExpected(response.AcceptedVertices)
         THEN Wrap("upsert of migration vertex returned an unexpected number of accepted vertices",
                   << Digits(response.AcceptedVertices) >>, ErrTigerGraphSchemaSetUpFailed)
    ELSE NoErr

\* ---------------------------------------------------------------- state
Procs == {1, 2}

VARIABLES
    initialised,   \* remote: the ClientMetadata graph exists
    store,         \* remote: the Migration vertices of ClientMetadata
    now,           \* the wall clock, in seconds
    runs,          \* Migrate calls made so far
    pc,            \* per client: where its Migrate call stands
    args,          \* per client: the arguments of its Migrate call
    local,         \* per client: the local variables of its Migrate call
    err,           \* per client: the error its Migrate call returned
    calls          \* per client: the requests of its Migrate call, in order

vars == << initialised, store, now, runs, pc, args, local, err, calls >>

remote == << initialised, store, now >>

\* The version strings a caller passes: valid ones, the empty string, a
\* non-numeric one.
ValidVersions == { Sprintf03d(v) : v \in 0..MaxVersion }
NonNumeric == << "0", "0", "a" >>
VersionInputs == ValidVersions \cup { << >>, NonNumeric }

NoArgs == [graph |-> "", version |-> << >>, initVersion |-> << >>, dryRun |-> FALSE, ctx |-> "live"]

NoLocal ==
    [ isInitialised          |-> FALSE,
      currentMigrationNumber |-> << >>,
      migrationNumbers       |-> << >>,
      migrationMode          |-> "",
      idx                    |-> 1 ]

Running == {"CheckInit", "Bootstrap", "FastForward", "GetCurrent", "TryStep", "Commit"}

\* The records a bootstrap with initVersion k leaves for a graph when all
\* its commits fall in second 0.
FastForwarded(graph, k) ==
    { MigrationVertex(graph, Sprintf03d(v), "up", 0) : v \in 0..k }

\* the graph the earlier Migrate call was for
SeedGraph == "MyGraph"

\* The remote instance a client meets: a fresh one, or one an earlier
\* Migrate call bootstrapped and fast-forwarded for one graph.
Init ==
    /\ \/ initialised = FALSE /\ store = {}
       \/ /\ initialised = TRUE
          /\ \E k \in 0..MaxVersion : store = FastForwarded(SeedGraph, k)
    /\ now = 0
    /\ runs = 0
    /\ pc = [p \in Procs |-> "idle"]
    /\ args = [p \in Procs |-> NoArgs]
    /\ local = [p \in Procs |-> NoLocal]
    /\ err = [p \in Procs |-> NoErr]
    /\ calls = [p \in Procs |-> << >>]

\* One request as the server saw it: the endpoint, what was sent, the
\* response, and the error the client made of the response.
Call(url, request, reply, e) == [url |-> url, request |-> request, reply |-> reply, err |-> e]

\* gsql/metadata_init.gsql, embedded as InitFileString
InitFile == << "m", "e", "t", "a", "d", "a", "t", "a", "_", "i", "n", "i", "t" >> \o GsqlExt

\* the body of a request to the GSQL file endpoint: the script of a file
Script(file) == [file |-> file]

SetPc(p, label, e) ==
    /\ pc' = [pc EXCEPT ![p] = label]
    /\ err' = [err EXCEPT ![p] = e]

Log(p, call) == calls' = [calls EXCEPT ![p] = Append(@, call)]

\* --------------------------------------------------------------- Migrate
\* A caller calls Migrate(ctx, graph, version, initVersion, dir, dryRun); what
\* dir holds is the file system's to say when a step reads it.
Begin(p) ==
    /\ pc[p] = "idle"
    /\ runs < MaxRuns
    /\ \E g \in Graphs, v \in VersionInputs, iv \in VersionInputs, dry \in BOOLEAN :
          args' = [args EXCEPT ![p] =
                     [graph |-> g, version |-> v, initVersion |-> iv, dryRun |-> dry, ctx |-> "live"]]
    /\ runs' = runs + 1
    /\ pc' = [pc EXCEPT ![p] = "CheckInit"]
    /\ UNCHANGED << remote, local, err, calls >>

\* Only one run at a time: the discipline the callers keep.
StartMigrate(p) ==
    /\ p = 1
    /\ \A q \in Procs : pc[q] = "idle"
    /\ Begin(p)

\* What the metadata endpoint can answer for the tracking graph.
MetaResponses == {IF initialised THEN MetaFound ELSE MetaNotFound, MetaDenied, MetaNoName, MetaUnreachable}

\* variant: Migrate goes on after a failed check
AfterCheckIgnoringError(e, isInitialised) ==
    IF isInitialised THEN "GetCurrent" ELSE "Bootstrap"

\* variant: the bootstrap is left to someone else
AfterCheckNeverBootstrap(e, isInitialised) ==
    IF e # NoErr THEN "Failed" ELSE "GetCurrent"

\* variant: the bootstrap runs whatever the check answered
AfterCheckAlwaysBootstrap(e, isInitialised) ==
    IF e # NoErr THEN "Failed" ELSE "Bootstrap"

\* if err != nil { return err }; if !isInitialised { bootstrap }
AfterCheck(e, isInitialised) ==
    IF e # NoErr THEN "Failed" ELSE IF isInitialised THEN "GetCurrent" ELSE "Bootstrap"

\* isInitialised, err := c.CheckIsInitialised(ctx)
DoCheckInit(p) ==
    /\ pc[p] = "CheckInit"
    /\ \E meta \in MetaResponses :
          LET r == CheckIsInitialised(meta)
          IN  /\ Log(p, Call("metadata", [graph |-> MetadataGraphName], meta, r.err))
              /\ local' = [local EXCEPT ![p].isInitialised = r.result]
              /\ SetPc(p, AfterCheck(r.err, r.result), r.err)
    /\ UNCHANGED << remote, runs, args >>

\* variant: the fast-forward starts after version 000
FastForwardPlanAfterZero(initVersion) ==
    IF initVersion = << >> THEN [result |-> << >>, mode |-> "", err |-> NoErr]
    ELSE getMigrationsBetweenVersions(Sprintf03d(0), initVersion)

\* The steps of a fast-forward: none without an initVersion, else the
\* versions up to it, or the error of an initVersion that is no version.
FastForwardPlan(initVersion) ==
    IF initVersion = << >> THEN [result |-> << >>, mode |-> "", err |-> NoErr]
    ELSE LET m == getMigrationsBetweenVersions(<< >>, initVersion)
         IN  IF m.err # NoErr
             THEN [m EXCEPT !.err = Wrap("failed to determine the initial migrations to run",
                                         << initVersion >>, m.err)]
             ELSE m

\* variant: the fast-forward follows the initialisation script whatever it returned
AfterBootstrapIgnoringScript(e, plan) ==
    IF plan.err # NoErr THEN "Failed"
    ELSE IF plan.result = << >> THEN "GetCurrent" ELSE "FastForward"

\* where Migrate goes after the initialisation script and the plan
AfterBootstrap(e, plan) ==
    IF e # NoErr \/ plan.err # NoErr THEN "Failed"
    ELSE IF plan.result = << >> THEN "GetCurrent" ELSE "FastForward"

\* if err = c.RunGSQL(ctx, InitFileString); then the fast-forward plan
DoBootstrap(p) ==
    /\ pc[p] = "Bootstrap"
    /\ \E resp \in ScriptResponses :
          LET e    == RunGSQL(resp)
              plan == FastForwardPlan(args[p].initVersion)
          IN  /\ Log(p, Call("file", Script(InitFile), resp, e))
              /\ initialised' = (initialised \/ e = NoErr)
              /\ SetPc(p, AfterBootstrap(e, plan), IF e # NoErr THEN e ELSE plan.err)
              /\ local' = IF AfterBootstrap(e, plan) = "Failed" THEN local
                          ELSE [local EXCEPT ![p].migrationNumbers = plan.result,
                                             ![p].migrationMode = plan.mode,
                                             ![p].idx = 1]
    /\ UNCHANGED << store, now, runs, args >>

\* time.Now(): the same second as the last reading, or the next one
Clock == { t \in {now, now + 1} : t <= MaxTime }

\* variant: the loop walks the steps from the last to the first
StepAtReversed(migrationNumbers, idx) == migrationNumbers[Len(migrationNumbers) - idx + 1]

\* for _, migrationNumber := range migrationNumbers: the step of this turn
StepAt(migrationNumbers, idx) == migrationNumbers[idx]

\* c.commitMigrationVersion(ctx, graph, version, mode) for the step at idx:
\* the clock is read, the vertex is sent and the response is judged.
CommitStep(p, createdAt, resp) ==
    LET vertex == MigrationVertex(args[p].graph, StepAt(local[p].migrationNumbers, local[p].idx),
                                  local[p].migrationMode, createdAt)
    IN  /\ now' = createdAt
        /\ store' = IF Stored(resp) THEN UpsertVertex(store, vertex) ELSE store
        /\ Log(p, Call("upsert", vertex, resp, commitMigrationVersion(resp)))

\* variant: the fast-forward loop goes on after a failed commit
AfterFastForwardIgnoringError(e, idx, migrationNumbers) ==
    IF idx < Len(migrationNumbers) THEN "FastForward" ELSE "GetCurrent"

\* the fast-forward loop: a failed commit returns, the last one ends the loop
AfterFastForward(e, idx, migrationNumbers) ==
    IF e # NoErr THEN "Failed"
    ELSE IF idx < Len(migrationNumbers) THEN "FastForward" ELSE "GetCurrent"

\* the fast-forward loop: one commit per version up to initVersion
DoFastForward(p) ==
    /\ pc[p] = "FastForward"
    /\ \E createdAt \in Clock, resp \in UpsertResponses :
          LET e == commitMigrationVersion(resp)
              n == StepAt(local[p].migrationNumbers, local[p].idx)
          IN  /\ CommitStep(p, createdAt, resp)
              /\ SetPc(p, AfterFastForward(e, local[p].idx, local[p].migrationNumbers),
                       IF e # NoErr THEN Wrap("failed to commit migration number", << n >>, e) ELSE NoErr)
              /\ local' = IF e # NoErr THEN local ELSE [local EXCEPT ![p].idx = @ + 1]
    /\ UNCHANGED << initialised, runs, args >>

\* What the query endpoint can answer for get_latest_migration.
QueryResponses(graph) ==
    {QueryUnreachable, QueryError} \cup { QueryResult(latest) : latest \in get_latest_migration(store, graph) }

\* for ... { if dryRun { continue } ... }: whether the loop has a step to run
HasWork(dryRun, migrationNumbers) == ~dryRun /\ migrationNumbers # << >>

\* variant: the step loop starts whatever the query returned
AfterResolveIgnoringError(e, dryRun, migrationNumbers) ==
    IF HasWork(dryRun, migrationNumbers) THEN "TryStep" ELSE "Done"

\* where Migrate goes once the current version and the steps are known
AfterResolve(e, dryRun, migrationNumbers) ==
    IF e # NoErr THEN "Failed"
    ELSE IF HasWork(dryRun, migrationNumbers) THEN "TryStep" ELSE "Done"

\* currentMigrationNumber, err := c.GetCurrentMigrationNumber(ctx, graph);
\* then getMigrationsBetweenVersions(currentMigrationNumber, version)
DoGetCurrent(p) ==
    /\ pc[p] = "GetCurrent"
    /\ \E resp \in QueryResponses(args[p].graph) :
          LET r == GetCurrentMigrationNumber(resp)
              m == getMigrationsBetweenVersions(r.result, args[p].version)
              e == IF r.err # NoErr
                   THEN Wrap("failed to get current migration number from TigerGraph", << >>, r.err)
                   ELSE m.err
          IN  /\ Log(p, Call("query", [graph_name |-> args[p].graph], resp, r.err))
              /\ SetPc(p, AfterResolve(e, args[p].dryRun, m.result), e)
              /\ local' = IF r.err # NoErr THEN local
                          ELSE IF m.err # NoErr
                          THEN [local EXCEPT ![p].currentMigrationNumber = r.result]
                          ELSE [local EXCEPT ![p].currentMigrationNumber = r.result,
                                             ![p].migrationNumbers = m.result,
                                             ![p].migrationMode = m.mode,
                                             ![p].idx = 1]
    /\ UNCHANGED << remote, runs, args >>

\* variant: the commit follows the script whatever it returned
AfterScriptIgnoringError(e) == "Commit"

\* variant: a failed script is sent again
AfterScriptRetrying(e) == IF e # NoErr THEN "TryStep" ELSE "Commit"

\* if err = c.tryMigrateStep(...); err != nil { return err }, else the commit
AfterScript(e) == IF e # NoErr THEN "Failed" ELSE "Commit"

\* variant: the error says only that a file is missing
MigrationNotFoundUnnamed(number, mode) ==
    Sentinel("failed to run migration, no file with migration number found")

\* fmt.Errorf("failed to run migration, no file with migration number found.
\* number: %s, mode: %s", number, mode)
MigrationNotFound(number, mode) ==
    << [msg |-> "failed to run migration, no file with migration number found",
        args |-> << number, ModeChars(mode) >>] >>

\* c.tryMigrateStep(ctx, migrationNumber, migrationMode, migrationFileDir)
DoTryStep(p) ==
    /\ pc[p] = "TryStep"
    /\ \E found \in MigrationDirs :
          LET number == StepAt(local[p].migrationNumbers, local[p].idx)
              mode   == local[p].migrationMode
              dir    == ReadDir(found)
              file   == FirstMatch(dir.files, number, mode)
              absent == MigrationNotFound(number, mode)
          IN  IF dir.err # NoErr \/ file = << >>
              THEN /\ SetPc(p, "Failed", IF dir.err # NoErr THEN dir.err ELSE absent)
                   /\ UNCHANGED calls
              ELSE \E resp \in ScriptResponses :
                      LET e == RunGSQL(resp)
                      IN  /\ Log(p, Call("file", Script(file), resp, e))
                          /\ SetPc(p, AfterScript(e),
                                   IF e # NoErr
                                   THEN Wrap("failed to set up TG schema", << >>, ErrTigerGraphSchemaSetUpFailed)
                                   ELSE NoErr)
    /\ UNCHANGED << remote, runs, args, local >>

\* variant: the loop goes on after a failed commit
AfterCommitIgnoringError(e, idx, migrationNumbers) ==
    IF idx < Len(migrationNumbers) THEN "TryStep" ELSE "Done"

\* variant: after a commit the next step is committed without its script
AfterCommitWithoutScript(e, idx, migrationNumbers) ==
    IF e # NoErr THEN "Failed"
    ELSE IF idx < Len(migrationNumbers) THEN "Commit" ELSE "Done"

\* variant: a failed commit is attempted again
AfterCommitRetrying(e, idx, migrationNumbers) ==
    IF e # NoErr THEN "Commit"
    ELSE IF idx < Len(migrationNumbers) THEN "TryStep" ELSE "Done"

\* variant: the error of the last commit is dropped
AfterCommitSwallowingLast(e, idx, migrationNumbers) ==
    IF idx < Len(migrationNumbers) THEN (IF e # NoErr THEN "Failed" ELSE "TryStep") ELSE "Done"

\* if err = c.commitMigrationVersion(...); err != nil { return }, else the
\* next turn of the loop, or return nil after the last
AfterCommit(e, idx, migrationNumbers) ==
    IF e # NoErr THEN "Failed"
    ELSE IF idx < Len(migrationNumbers) THEN "TryStep" ELSE "Done"

trackMigrationFailureTemplate == "failed to commit migration version to metadata graph"

\* the commit that follows a step's script
DoCommit(p) ==
    /\ pc[p] = "Commit"
    /\ \E createdAt \in Clock, resp \in UpsertResponses :
          LET e == commitMigrationVersion(resp)
              n == StepAt(local[p].migrationNumbers, local[p].idx)
          IN  /\ CommitStep(p, createdAt, resp)
              /\ SetPc(p, AfterCommit(e, local[p].idx, local[p].migrationNumbers),
                       IF e # NoErr THEN Wrap(trackMigrationFailureTemplate, << n >>, e) ELSE NoErr)
              /\ local' = IF e # NoErr THEN local ELSE [local EXCEPT ![p].idx = @ + 1]
    /\ UNCHANGED << initialised, runs, args >>

\* Migrate has returned: the caller has its result and the call's frame is
\* gone.
Finish(p) ==
    /\ pc[p] \in {"Done", "Failed"}
    /\ pc' = [pc EXCEPT ![p] = "idle"]
    /\ args' = [args EXCEPT ![p] = NoArgs]
    /\ local' = [local EXCEPT ![p] = NoLocal]
    /\ err' = [err EXCEPT ![p] = NoErr]
    /\ calls' = [calls EXCEPT ![p] = << >>]
    /\ UNCHANGED << remote, runs >>

Next ==
    \E p \in Procs :
        \/ StartMigrate(p)
        \/ DoCheckInit(p)
        \/ DoBootstrap(p)
        \/ DoFastForward(p)
        \/ DoGetCurrent(p)
        \/ DoTryStep(p)
        \/ DoCommit(p)
        \/ Finish(p)

Spec == Init /\ [][Next]_vars

\* the next statement of a Migrate call that is under way
MigrateStep(p) ==
    \/ DoCheckInit(p)
    \/ DoBootstrap(p)
    \/ DoFastForward(p)
    \/ DoGetCurrent(p)
    \/ DoTryStep(p)
    \/ DoCommit(p)

\* Weak fairness of MigrateStep(p), written out: a statement of a call that
\* is under way is always enabled (each request has a response or an error
\* to return), so the call is not under way for ever without taking one.
Progress(p) == []<>(pc[p] \notin Running) \/ []<><<MigrateStep(p)>>_vars

\* the one Migrate call whose course is followed to its end
MigrateOnce(p) == runs = 0 /\ StartMigrate(p)

NextLive == \E p \in Procs : MigrateOnce(p) \/ MigrateStep(p) \/ Finish(p)

\* A call that is under way goes on: the goroutine runs and every request
\* returns a response or an error; a call that has returned hands its
\* result to the caller.
SpecLive == Init /\ [][NextLive]_vars /\ \A p \in Procs : Progress(p) /\ WF_vars(Finish(p))

\* ------------------------------------------------------- cancellation
\* The caller cancels the ctx it passed to a call that is under way.
Cancel(p) ==
    /\ pc[p] \in Running
    /\ args[p].ctx = "live"
    /\ args' = [args EXCEPT ![p].ctx = "cancelled"]
    /\ UNCHANGED << remote, runs, pc, local, err, calls >>

\* the request of call c came back with an error instead of a response
RequestFailed(c) == IF c.url = "file" THEN ~c.reply.sent ELSE c.reply.err # NoErr

\* Every request is made with ctx (http.NewRequestWithContext), and
\* http.Client.Do returns an error for a request whose ctx is cancelled.
UnderContext(p) ==
    args[p].ctx = "cancelled" =>
        \/ calls'[p] = calls[p]
        \/ RequestFailed(calls'[p][Len(calls'[p])])

NextCancel == \E p \in Procs : MigrateOnce(p) \/ Cancel(p) \/ (MigrateStep(p) /\ UnderContext(p)) \/ Finish(p)

SpecCancel == Init /\ [][NextCancel]_vars

TypeOK ==
    /\ initialised \in BOOLEAN
    /\ now \in 0..MaxTime
    /\ runs \in 0..(MaxRuns + 1)
    /\ \A p \in Procs : pc[p] \in Running \cup {"idle", "Resolve", "Decrement", "Done", "Failed"}

\* ------------------------------------------- a remote others have written
\* The Migration vertex a remote can hold as the latest of a graph: one a
\* Migrate call wrote, or one set by hand in TigerGraph.
StoredVersions == ValidVersions \cup {NonNumeric}
StoredModes == {"up", "down", "don"}

\* The remote instance a client meets: a fresh one, an initialised one
\* without records, or one holding a single record for SeedGraph, written
\* in the last second of the clock.
InitStored ==
    /\ \/ initialised = FALSE /\ store = {}
       \/ initialised = TRUE /\ store = {}
       \/ /\ initialised = TRUE
          /\ \E v \in StoredVersions, m \in StoredModes :
                store = {MigrationVertex(SeedGraph, v, m, MaxTime)}
    /\ now = MaxTime
    /\ runs = 0
    /\ pc = [p \in Procs |-> "idle"]
    /\ args = [p \in Procs |-> NoArgs]
    /\ local = [p \in Procs |-> NoLocal]
    /\ err = [p \in Procs |-> NoErr]
    /\ calls = [p \in Procs |-> << >>]

SpecStored == InitStored /\ [][Next]_vars

\* ------------------------------------------ CheckIsInitialised on its own
\* The responses GetGraphMetadata can hand to CheckIsInitialised: the error
\* flag, a message, and results that are absent (not an object), an object
\* without a name, or an object naming a graph.
MetaMessages ==
    { << >>, ExpectedFailurePrefix, ExpectedFailurePrefix \o << "For", "whatever", "reason." >>,
      << "You", "are", "not", "authenticated" >> }
MetaResults ==
    { [hasResults |-> FALSE, GraphName |-> ""] } \cup
    { [hasResults |-> TRUE, GraphName |-> g] : g \in {"", MetadataGraphName} \cup Graphs }
MetaShapes ==
    { [err |-> NoErr, Error |-> e, Message |-> m, hasResults |-> r.hasResults, GraphName |-> r.GraphName] :
        e \in BOOLEAN, m \in MetaMessages, r \in MetaResults } \cup {MetaUnreachable}

\* A caller calls c.CheckIsInitialised(ctx).
CheckIsInitialisedCall(p) ==
    /\ pc[p] = "idle"
    /\ runs < MaxRuns
    /\ \E meta \in MetaShapes :
          LET r == CheckIsInitialised(meta)
          IN  /\ Log(p, Call("metadata", [graph |-> MetadataGraphName], meta, r.err))
              /\ local' = [local EXCEPT ![p].isInitialised = r.result]
              /\ SetPc(p, IF r.err # NoErr THEN "Failed" ELSE "Done", r.err)
    /\ runs' = runs + 1
    /\ UNCHANGED << remote, args >>

NextCheck ==
    \E p \in Procs :
        \/ CheckIsInitialisedCall(p)
        \/ Finish(p)

SpecCheck == Init /\ [][NextCheck]_vars

\* ------------------------------------------------------ RunGSQL on its own
\* the lines a GSQL response is made of
GsqlLines ==
    { << >>,
      << SuccessString >>,
      << "__GSQL__RETURN__CODE__,211" >>,
      << "Installing query..." >>,
      << SemanticFailureString, "These queries could not be found anywhere: [non_existent]." >>,
      << SuccessString, "and more" >> }

\* strings.Split never returns less than one line
GsqlBodies == UNION { [1..n -> GsqlLines] : n \in 1..MaxLines }

\* what a request to the GSQL file endpoint can come back with
GsqlReplies ==
    {GsqlTransportFailure}
      \cup { [sent |-> TRUE, status |-> st, lines |-> b] : st \in {"200", "400"}, b \in GsqlBodies }

\* err := c.RunGSQL(ctx, body)
RunGSQLCall(p) ==
    /\ \A q \in Procs : pc[q] = "idle"
    /\ runs < MaxRuns
    /\ \E resp \in GsqlReplies :
          LET e == RunGSQL(resp)
          IN  /\ Log(p, Call("file", Script(InitFile), resp, e))
              /\ initialised' = (initialised \/ e = NoErr)
              /\ SetPc(p, IF e # NoErr THEN "Failed" ELSE "Done", e)
    /\ runs' = runs + 1
    /\ UNCHANGED << store, now, args, local >>

NextGSQL == \E p \in Procs : RunGSQLCall(p) \/ Finish(p)

SpecGSQL == Init /\ [][NextGSQL]_vars

\* ------------------------------------------------ tryMigrateStep on its own
\* Names an entry of a migration directory can have: the up and down files
\* of versions 000 and 001 as the README names them, and files of version
\* 001 named otherwise.
BackupFile == Sprintf03d(1) \o << "_", "b", "a", "c", "k", "u", "p" >> \o GsqlExt
ShutdownFile == Sprintf03d(1) \o << "_", "s", "h", "u", "t", "d", "o", "w", "n" >> \o GsqlExt
NotesFile == Sprintf03d(1) \o << "_", "n", "o", "t", "e", "s", ".", "t", "x", "t" >>

EntryNames ==
    { FileName(Sprintf03d(v), << "m" >>, m) : v \in 0..1, m \in {"up", "down"} }
      \cup {BackupFile, ShutdownFile, NotesFile}

\* a run about to take its one step, (number, mode), in a directory that
\* holds some of the entries
InitArtifact ==
    /\ initialised = TRUE
    /\ store = {}
    /\ now = 0
    /\ runs = 0
    /\ pc = [p \in Procs |-> IF p = 1 THEN "TryStep" ELSE "idle"]
    /\ \E entries \in SUBSET EntryNames, v \in 0..1, mode \in {"up", "down"} :
          /\ args = [p \in Procs |->
                       IF p = 1
                       THEN [graph |-> SeedGraph, version |-> Sprintf03d(v), initVersion |-> << >>,
                             dryRun |-> FALSE, ctx |-> "live", migrationFileDir |-> entries]
                       ELSE NoArgs]
          /\ local = [p \in Procs |->
                        IF p = 1
                        THEN [NoLocal EXCEPT !.isInitialised = TRUE,
                                             !.migrationNumbers = << Sprintf03d(v) >>,
                                             !.migrationMode = mode]
                        ELSE NoLocal]
    /\ err = [p \in Procs |-> NoErr]
    /\ calls = [p \in Procs |-> << >>]

\* c.tryMigrateStep(ctx, migrationNumber, migrationMode, migrationFileDir)
\* in the directory the run was given
TryStepIn(p) ==
    /\ pc[p] = "TryStep"
    /\ LET number == StepAt(local[p].migrationNumbers, local[p].idx)
           mode   == local[p].migrationMode
           files  == SortedNames(args[p].migrationFileDir)
           file   == FirstMatch(files, number, mode)
       IN  IF file = << >>
           THEN /\ SetPc(p, "Failed", MigrationNotFound(number, mode))
                /\ UNCHANGED calls
           ELSE \E resp \in ScriptResponses :
                   LET e == RunGSQL(resp)
                   IN  /\ Log(p, Call("file", Script(file), resp, e))
                       /\ SetPc(p, AfterScript(e),
                                IF e # NoErr
                                THEN Wrap("failed to set up TG schema", << >>, ErrTigerGraphSchemaSetUpFailed)
                                ELSE NoErr)
    /\ UNCHANGED << remote, runs, args, local >>

NextArtifact == \E p \in Procs : TryStepIn(p) \/ Finish(p)

SpecArtifact == InitArtifact /\ [][NextArtifact]_vars

\* ------------------------------------------------------------------ Auth
\* variant: a token counts as fresh in the second it expires
AfterOrEqual(t, u) == t >= u

\* t.After(u)
After(t, u) == t > u

\* c.Tokens: a map from graph names to tokens, empty in a new client
NoTokens == << >>

\* c.Tokens[graph] = token
PutToken(tokens, graph, token) ==
    [g \in DOMAIN tokens \cup {graph} |-> IF g = graph THEN token ELSE tokens[g]]

\* existingToken, exists := c.Tokens[graph]; exists && existingToken.Expires.After(time.Now())
HasFreshToken(tokens, graph, at) ==
    graph \in DOMAIN tokens /\ After(tokens[graph].Expires, at)

\* What the token endpoint can come back with: nothing, a status other
\* than 200, a body that is no JSON, or a token and the second it expires,
\* which may lie in the past; tokens that expire at different times differ.
TokenValue(x) == << "t", "o", "k", "e", "n" >> \o Sprintf03d(x)

TokenReplies ==
    { [sent |-> FALSE, status |-> "", json |-> FALSE, token |-> << >>, expiration |-> 0],
      [sent |-> TRUE, status |-> "401", json |-> TRUE, token |-> << >>, expiration |-> 0],
      [sent |-> TRUE, status |-> "200", json |-> FALSE, token |-> << >>, expiration |-> 0] }
      \cup { [sent |-> TRUE, status |-> "200", json |-> TRUE, token |-> TokenValue(x), expiration |-> x] :
                x \in 0..(MaxTime + 1) }

\* c.RequestInto(request, tokenResponse)
RequestInto(resp) ==
    IF ~resp.sent THEN Sentinel("transport error")
    ELSE IF resp.status # "200" THEN ErrNonOK
    ELSE IF ~resp.json THEN Wrap("failed to unmarshal response", << >>, Sentinel("invalid character"))
    ELSE NoErr

\* a new client: NewClient makes the map of tokens, and it is empty
InitAuth ==
    /\ initialised = TRUE
    /\ store = {}
    /\ now = 0
    /\ runs = 0
    /\ pc = [p \in Procs |-> "idle"]
    /\ args = [p \in Procs |-> NoArgs]
    /\ local = [p \in Procs |->
                  [isInitialised |-> FALSE, currentMigrationNumber |-> << >>, migrationNumbers |-> << >>,
                   migrationMode |-> "", idx |-> 1, Tokens |-> NoTokens]]
    /\ err = [p \in Procs |-> NoErr]
    /\ calls = [p \in Procs |-> << >>]

\* What a call of c.Auth(graph) at time at can do to a client that holds
\* tokens: the request it sends, if any, the tokens held after it and the
\* error it returns.
AuthOutcomes(tokens, graph, at) ==
    IF HasFreshToken(tokens, graph, at)
    THEN { [sent |-> << >>, Tokens |-> tokens, err |-> NoErr] }
    ELSE { LET e     == RequestInto(resp)
               token == [Value |-> resp.token, Expires |-> resp.expiration]
           IN  [sent   |-> << Call("requesttoken", [graph |-> graph], resp, e) >>,
                Tokens |-> IF e # NoErr THEN tokens ELSE PutToken(tokens, graph, token),
                err    |-> e] : resp \in TokenReplies }

\* err := c.Auth(graph)
Auth(p) ==
    /\ pc[p] \in {"idle", "Done", "Failed"}
    /\ runs < MaxAuth
    /\ \E graph \in Graphs :
          /\ args' = [args EXCEPT ![p] = [NoArgs EXCEPT !.graph = graph]]
          /\ \E o \in AuthOutcomes(local[p].Tokens, graph, now) :
                /\ calls' = [calls EXCEPT ![p] = @ \o o.sent]
                /\ local' = [local EXCEPT ![p].Tokens = o.Tokens]
                /\ SetPc(p, IF o.err # NoErr THEN "Failed" ELSE "Done", o.err)
    /\ runs' = runs + 1
    /\ UNCHANGED remote

\* time.Now() moves on between two calls
Later ==
    /\ now < MaxTime
    /\ now' = now + 1
    /\ UNCHANGED << initialised, store, runs, pc, args, local, err, calls >>

NextAuth == Later \/ \E p \in Procs : Auth(p)

SpecAuth == InitAuth /\ [][NextAuth]_vars

\* ---------------------------------------------------- RunLoadingJobJSONL
ErrMarshallingJSONL == Sentinel("failed to marshal into JSONL")
ErrLoadingJobRequestFailed == Sentinel("failed to make request to loading job endpoint")
ErrLoadingJobPartialFailure == Sentinel("not all lines of the JSONL were saved successfully")

\* The values a caller passes as lines: two payloads of the test, and one
\* that encoding/json cannot encode (a channel, say).
Unsupported == [guid |-> "", value |-> "chan"]

LineValues == { [guid |-> "1234", value |-> "hello"], Unsupported }

LineInputs == UNION { [1..n -> LineValues] : n \in 0..MaxLines }

\* json.Marshal(line): the bytes, as the pieces they are made of
JsonMarshal(line) ==
    IF line = Unsupported
    THEN [bytes |-> << >>, err |-> Sentinel("json: unsupported type")]
    ELSE [bytes |-> << "{", "guid", ":", line.guid, ",", "value", ":", line.value, "}" >>, err |-> NoErr]

\* variant: every line is followed by a newline
RECURSIVE marshalJSONLTrailing(_)
marshalJSONLTrailing(lines) ==
    IF lines = << >> THEN [bytes |-> << >>, err |-> NoErr]
    ELSE LET rest == marshalJSONLTrailing(SubSeq(lines, 1, Len(lines) - 1))
             line == JsonMarshal(lines[Len(lines)])
         IN  IF rest.err # NoErr THEN rest
             ELSE IF line.err # NoErr THEN [bytes |-> << >>, err |-> line.err]
             ELSE [bytes |-> rest.bytes \o line.bytes \o << "\n" >>,
                   err |-> NoErr]

\* marshalJSONL(lines): the lines are encoded in turn, and every line but
\* the last is followed by a newline
RECURSIVE marshalJSONL(_)
marshalJSONL(lines) ==
    IF lines = << >> THEN [bytes |-> << >>, err |-> NoErr]
    ELSE LET rest == marshalJSONL(SubSeq(lines, 1, Len(lines) - 1))
             line == JsonMarshal(lines[Len(lines)])
         IN  IF rest.err # NoErr THEN rest
             ELSE IF line.err # NoErr THEN [bytes |-> << >>, err |-> line.err]
             ELSE [bytes |-> rest.bytes \o (IF Len(lines) > 1 THEN << "\n" >> ELSE << >>) \o line.bytes,
                   err |-> NoErr]

\* What the loading job endpoint can come back with: nothing, a status
\* other than 200, a body that is no JSON, or a LoadingJobResponse with
\* zero, one or two results, of which the model keeps the validLine counts.
LoadingJobReplies ==
    { [sent |-> FALSE, status |-> "", json |-> FALSE, Results |-> << >>],
      [sent |-> TRUE, status |-> "500", json |-> TRUE, Results |-> << >>],
      [sent |-> TRUE, status |-> "200", json |-> FALSE, Results |-> << >>] }
      \cup { [sent |-> TRUE, status |-> "200", json |-> TRUE, Results |-> r] :
                r \in UNION { [1..n -> 0..MaxLines] : n \in 0..2 } }

\* the rest of RunLoadingJobJSONL once PostRaw has returned: the response
\* is judged against the number of lines sent
LoadingJobVerdict(resp, count) ==
    LET e == RequestInto(resp)
    IN  IF e # NoErr THEN e
        ELSE IF Len(resp.Results) # 1
        THEN Wrap("response does not contain exactly one result", << Len(resp.Results) >>,
                  ErrLoadingJobRequestFailed)
        ELSE IF resp.Results[1] # count
        THEN Wrap("tigergraph reported fewer valid JSON lines than were provided",
                  << resp.Results[1], count >>, ErrLoadingJobPartialFailure)
        ELSE NoErr

\* a client that is new, or holds a token from an earlier call
InitLoad ==
    /\ initialised = TRUE
    /\ store = {}
    /\ now = 0
    /\ runs = 0
    /\ pc = [p \in Procs |-> "idle"]
    /\ args = [p \in Procs |-> NoArgs]
    /\ \E held \in {NoTokens} \cup { PutToken(NoTokens, SeedGraph, [Value |-> TokenValue(x), Expires |-> x]) :
                                        x \in 0..(MaxTime + 1) } :
          local = [p \in Procs |->
                      [isInitialised |-> FALSE, currentMigrationNumber |-> << >>, migrationNumbers |-> << >>,
                       migrationMode |-> "", idx |-> 1, Tokens |-> held]]
    /\ err = [p \in Procs |-> NoErr]
    /\ calls = [p \in Procs |-> << >>]

\* err := c.RunLoadingJobJSONL(graphName, loadingJobName, lines); PostRaw
\* authenticates for the graph before it sends the request
RunLoadingJobJSONL(p) ==
    /\ \A q \in Procs : pc[q] = "idle"
    /\ runs < MaxRuns
    /\ \E graphName \in Graphs, lines \in LineInputs :
          LET body == marshalJSONL(lines)
          IN  /\ args' = [args EXCEPT ![p] = [graph |-> graphName, version |-> << >>, initVersion |-> << >>,
                                               dryRun |-> FALSE, lines |-> lines]]
              /\ IF body.err # NoErr
                 THEN /\ SetPc(p, "Failed", ErrMarshallingJSONL)
                      /\ UNCHANGED << calls, local >>
                 ELSE \E o \in AuthOutcomes(local[p].Tokens, graphName, now) :
                         /\ local' = [local EXCEPT ![p].Tokens = o.Tokens]
                         /\ IF o.err # NoErr
                            THEN /\ calls' = [calls EXCEPT ![p] = @ \o o.sent]
                                 /\ SetPc(p, "Failed", o.err)
                            ELSE \E resp \in LoadingJobReplies :
                                    LET e == LoadingJobVerdict(resp, Len(lines))
                                    IN  /\ calls' = [calls EXCEPT ![p] =
                                                        @ \o o.sent
                                                          \o << Call("ddl", [graph |-> graphName, body |-> body.bytes],
                                                                     resp, e) >>]
                                        /\ SetPc(p, IF e # NoErr THEN "Failed" ELSE "Done", e)
    /\ runs' = runs + 1
    /\ UNCHANGED remote

NextLoad == Later \/ \E p \in Procs : RunLoadingJobJSONL(p)

SpecLoad == InitLoad /\ [][NextLoad]_vars

\* ------------------------------------ getMigrationsBetweenVersions on its own
\* Where the version numbers change their width, and the first of them.
WindowStarts == {0, 8, 98, 998}

Window(b) == { b + d : d \in 0..MaxSpan }

\* the ways a caller writes the number n: bare, or zero padded
Paddings(n) == { PadLeft(Digits(n), w) : w \in 1..MaxPad }

Written(b) == UNION { Paddings(n) : n \in Window(b) }

\* a version string below the minimum
Negative == << "-", "0", "0", "2" >>

\* the strings that are not versions
NotVersions == { << >>, NonNumeric, Negative }

\* the (from, to) pairs getMigrationsBetweenVersions is called with
ResolveInputs ==
    UNION { Written(b) \X Written(b) : b \in WindowStarts }
      \cup (NotVersions \X Written(0))
      \cup (Written(0) \X NotVersions)
      \cup (NotVersions \X NotVersions)
      \cup ({<< >>} \X UNION { Written(b) : b \in WindowStarts \ {98, 998} })

\* A client about to resolve the steps from a current version to a desired
\* one.
InitResolve ==
    /\ initialised = TRUE
    /\ store = {}
    /\ now = 0
    /\ runs = 0
    /\ pc = [p \in Procs |-> IF p = 1 THEN "Resolve" ELSE "idle"]
    /\ \E pair \in ResolveInputs :
          /\ args = [p \in Procs |-> IF p = 1 THEN [NoArgs EXCEPT !.version = pair[2]] ELSE NoArgs]
          /\ local = [p \in Procs |-> IF p = 1 THEN [NoLocal EXCEPT !.currentMigrationNumber = pair[1]] ELSE NoLocal]
    /\ err = [p \in Procs |-> NoErr]
    /\ calls = [p \in Procs |-> << >>]

\* migrationNumbers, migrationMode, err := getMigrationsBetweenVersions(currentMigrationNumber, version)
Resolve(p) ==
    /\ pc[p] = "Resolve"
    /\ LET m == getMigrationsBetweenVersions(local[p].currentMigrationNumber, args[p].version)
       IN  /\ local' = [local EXCEPT ![p].migrationNumbers = m.result,
                                      ![p].migrationMode = m.mode]
           /\ SetPc(p, IF m.err # NoErr THEN "Failed" ELSE "Done", m.err)
    /\ UNCHANGED << remote, runs, args, calls >>

NextResolve == \E p \in Procs : Resolve(p) \/ Finish(p)

SpecResolve == InitResolve /\ [][NextResolve]_vars

\* ---------------------------------------- decrementMigrationNumber on its own
\* the migration numbers a latest record can hold
DecrementInputs == UNION { Written(b) : b \in WindowStarts } \cup NotVersions

\* A client that has read a latest record of mode down and is about to
\* decrement its migration number.
InitDecrement ==
    /\ initialised = TRUE
    /\ \E n \in DecrementInputs : store = {MigrationVertex(SeedGraph, n, "down", 0)}
    /\ now = 0
    /\ runs = 0
    /\ pc = [p \in Procs |-> IF p = 1 THEN "Decrement" ELSE "idle"]
    /\ args = [p \in Procs |-> IF p = 1 THEN [NoArgs EXCEPT !.graph = SeedGraph] ELSE NoArgs]
    /\ local = [p \in Procs |-> NoLocal]
    /\ err = [p \in Procs |-> NoErr]
    /\ calls = [p \in Procs |-> << >>]

\* result, err := decrementMigrationNumber(latestMigration.Attributes.MigrationNumber)
Decrement(p) ==
    /\ pc[p] = "Decrement"
    /\ \E latestMigration \in store :
          LET d == decrementMigrationNumber(latestMigration.migration_number)
          IN  /\ local' = [local EXCEPT ![p].currentMigrationNumber = d.result]
              /\ SetPc(p, IF d.err # NoErr THEN "Failed" ELSE "Done", d.err)
    /\ UNCHANGED << remote, runs, args, calls >>

NextDecrement == \E p \in Procs : Decrement(p) \/ Finish(p)

SpecDecrement == InitDecrement /\ [][NextDecrement]_vars

\* ------------------------------------------------- a run up and a run back
\* A caller migrates a graph to a version.
MigrateUp(p) ==
    /\ p = 1
    /\ \A q \in Procs : pc[q] = "idle"
    /\ runs = 0
    /\ \E v \in ValidVersions, iv \in ValidVersions \cup {<< >>} :
          args' = [args EXCEPT ![p] =
                     [graph |-> SeedGraph, version |-> v, initVersion |-> iv, dryRun |-> FALSE, ctx |-> "live"]]
    /\ runs' = runs + 1
    /\ pc' = [pc EXCEPT ![p] = "CheckInit"]
    /\ UNCHANGED << remote, local, err, calls >>

\* When that call has returned success after going up, a second call
\* migrates the graph back to the version the first one started from.
MigrateBackDown(p) ==
    /\ p = 2
    /\ pc[1] = "Done" /\ pc[p] = "idle"
    /\ local[1].migrationMode = "up" /\ local[1].migrationNumbers # << >>
    /\ local[1].currentMigrationNumber # << >>
    /\ args' = [args EXCEPT ![p] =
                  [graph |-> args[1].graph, version |-> local[1].currentMigrationNumber,
                   initVersion |-> << >>, dryRun |-> FALSE, ctx |-> "live"]]
    /\ runs' = runs + 1
    /\ pc' = [pc EXCEPT ![p] = "CheckInit"]
    /\ UNCHANGED << remote, local, err, calls >>

NextRoundTrip == \E p \in Procs : MigrateUp(p) \/ MigrateBackDown(p) \/ MigrateStep(p)

SpecRoundTrip == Init /\ [][NextRoundTrip]_vars

\* -------------------------------------------------------- overlapping runs
\* Two callers that keep no discipline: each calls Migrate once, whenever
\* it likes, both with the same arguments (the two replicas of one service
\* starting up).
OverlapVersions == {Sprintf03d(0), Sprintf03d(1)}

MigrateConcurrently(p) ==
    /\ pc[p] = "idle"
    /\ calls[p] = << >>
    /\ \E v \in OverlapVersions, iv \in {<< >>, Sprintf03d(0)} :
          LET a == [graph |-> SeedGraph, version |-> v, initVersion |-> iv, dryRun |-> FALSE, ctx |-> "live"]
          IN  /\ \A q \in Procs \ {p} : args[q] \in {NoArgs, a}
              /\ args' = [args EXCEPT ![p] = a]
    /\ runs' = runs + 1
    /\ pc' = [pc EXCEPT ![p] = "CheckInit"]
    /\ UNCHANGED << remote, local, err, calls >>

NextOverlap == \E p \in Procs : MigrateConcurrently(p) \/ MigrateStep(p)

SpecOverlap == Init /\ [][NextOverlap]_vars

\* ================================================================ claims
\* ---------------------------------------------------- reading the log
IsInitScript(c) == c.url = "file" /\ c.request.file = InitFile
IsMigrationScript(c) == c.url = "file" /\ c.request.file # InitFile
IsUpsert(c) == c.url = "upsert"
IsQuery(c) == c.url = "query"

Indices(p, Test(_)) == { i \in 1..Len(calls[p]) : Test(calls[p][i]) }

\* the position of the current-version query in the log, 0 before it
QueryAt(p) ==
    LET at == Indices(p, IsQuery)
    IN  IF at = {} THEN 0 ELSE CHOOSE i \in at : TRUE

\* the requests of the execution phase: those after the current-version query
ExecLog(p) ==
    LET at == QueryAt(p)
    IN  IF at = 0 THEN << >> ELSE SubSeq(calls[p], at + 1, Len(calls[p]))

\* the steps the run resolved, computed again from what it read and was asked
Resolved(p) == getMigrationsBetweenVersions(local[p].currentMigrationNumber, args[p].version)

\* request c is the script of the artifact of step (number, mode)
ScriptOf(c, number, mode) ==
    /\ IsMigrationScript(c)
    /\ FileMatches(c.request.file, number, mode)
    /\ HasSuffix(c.request.file, << "." >> \o ModeChars(mode) \o GsqlExt)

\* request c is the commit of step (number, mode) for graph
CommitOf(c, graph, number, mode) ==
    /\ IsUpsert(c)
    /\ c.request.graph_name = graph
    /\ c.request.migration_number = number
    /\ c.request.mode = mode

\* the execution phase's log is script 1, commit 1, script 2, commit 2, ...
\* of the resolved steps, as far as it goes
Alternates(p, log) ==
    \/ log = << >>
    \/ LET m == Resolved(p)
           steps == m.result
           mode == m.mode
       IN  /\ Len(log) <= 2 * Len(steps)
           /\ \A i \in 1..Len(log) :
                 IF i % 2 = 1 THEN ScriptOf(log[i], steps[(i + 1) \div 2], mode)
                 ELSE CommitOf(log[i], args[p].graph, steps[(i + 1) \div 2], mode)

InExecution(p) == pc[p] \in {"TryStep", "Commit", "Done"} /\ QueryAt(p) > 0

\* C1: in a non-dry-run Migrate whose remote calls all succeed, the
\* execution phase sends the script of step 1, commits step 1, sends the
\* script of step 2, commits step 2, ... for exactly the steps of
\* getMigrationsBetweenVersions(current, desired), in that order and with
\* the resolved direction and the target graph: a script is outstanding
\* only between its predecessor's commit and its own, and a run that
\* returns success has done all of them.
C1_ScriptsAndCommitsAlternate ==
    \A p \in Procs :
        (InExecution(p) /\ ~args[p].dryRun) =>
            LET log == ExecLog(p)
            IN  /\ Alternates(p, log)
                /\ \A i \in 1..Len(log) : log[i].err = NoErr
                /\ pc[p] = "TryStep" => Len(log) = 2 * (local[p].idx - 1)
                /\ pc[p] = "Commit" => Len(log) = 2 * local[p].idx - 1
                /\ pc[p] = "Done" => Len(log) = 2 * Len(Resolved(p).result)

\* a down run of two or more steps has returned success
C1_Witness ==
    \E p \in Procs :
        /\ pc[p] = "Done" /\ ~args[p].dryRun
        /\ Resolved(p).mode = "down"
        /\ Len(Resolved(p).result) >= 2
        /\ Len(ExecLog(p)) = 2 * Len(Resolved(p).result)

FailedScriptAt(p) ==
    LET log == ExecLog(p)
    IN  { i \in 1..Len(log) : IsMigrationScript(log[i]) /\ log[i].err # NoErr }

FailedCommitAt(p) ==
    LET log == ExecLog(p)
    IN  { i \in 1..Len(log) : IsUpsert(log[i]) /\ log[i].err # NoErr }

Count(log, Test(_)) == Cardinality({ i \in 1..Len(log) : Test(log[i]) /\ log[i].err = NoErr })

\* C3: when a step's script succeeded and its commit then fails with a
\* transport error, Migrate fails with the partial-failure error (the
\* failure template, naming the version, around the commit's error), the
\* failed commit is the last request of the run (no further step, no second
\* attempt), and the execution phase has run exactly one more script than
\* it has committed records.
C3_FailedCommitIsPartialFailure ==
    \A p \in Procs : \A i \in FailedCommitAt(p) :
        LET log == ExecLog(p)
        IN  ErrorIs(log[i].err, ErrNonOK) =>
                /\ i = Len(log)
                /\ pc[p] = "Failed"
                /\ err[p] = Wrap(trackMigrationFailureTemplate, << log[i].request.migration_number >>, log[i].err)
                /\ ErrorIs(err[p], ErrNonOK)
                /\ IsMigrationScript(log[i - 1]) /\ log[i - 1].err = NoErr
                /\ Alternates(p, log)
                /\ Count(log, IsMigrationScript) = Count(log, IsUpsert) + 1

\* the commit of the second step failed with a transport error
C3_Witness ==
    \E p \in Procs : \E i \in FailedCommitAt(p) :
        /\ i = 4
        /\ ErrorIs(ExecLog(p)[i].err, ErrNonOK)
        /\ pc[p] = "Failed"

\* C4: a dry-run Migrate makes no request to the script-execution endpoint
\* and none to the record-append endpoint, whatever remote state it starts
\* from and whatever initial version it is given.
C4_DryRunCallsNothing ==
    \A p \in Procs :
        args[p].dryRun => \A i \in 1..Len(calls[p]) : calls[p][i].url \notin {"file", "upsert"}

\* the versions the query's ordering can derive as current for a graph
CurrentVersions(graph) ==
    { GetCurrentMigrationNumber(QueryResult(latest)) : latest \in get_latest_migration(store, graph) }

\* C5: after a non-dry-run Migrate returned success, the current version
\* derived from the store for its graph is the desired version rendered
\* as 3 digits.
C5_SuccessLeavesDesiredVersion ==
    \A p \in Procs :
        (pc[p] = "Done" /\ ~args[p].dryRun) =>
            CurrentVersions(args[p].graph) =
                { [result |-> Sprintf03d(ParseInt(args[p].version).val), err |-> NoErr] }

\* C6: when the check finds the tracking schema initialised, Migrate never
\* sends the initialisation script and commits nothing before the
\* current-version query (no fast-forward record, whatever initVersion it
\* was given); and when the current version it reads equals the desired
\* one, it returns success having sent no script and no commit at all.
C6_InitialisedSkipsBootstrap ==
    \A p \in Procs :
        local[p].isInitialised =>
            /\ Indices(p, IsInitScript) = {}
            /\ LET at == QueryAt(p)
               IN  \A i \in Indices(p, IsUpsert) : at > 0 /\ i > at
            /\ ( /\ local[p].currentMigrationNumber # << >>
                 /\ QueryAt(p) > 0
                 /\ calls[p][QueryAt(p)].err = NoErr
                 /\ ParseInt(args[p].version).ok
                 /\ ParseInt(local[p].currentMigrationNumber).val = ParseInt(args[p].version).val )
               => /\ pc[p] = "Done" /\ err[p] = NoErr
                  /\ \A i \in 1..Len(calls[p]) : calls[p][i].url \notin {"file", "upsert"}

\* an initialised run that was given an initVersion returned success with
\* nothing to do
C6_Witness ==
    \E p \in Procs :
        /\ local[p].isInitialised
        /\ args[p].initVersion \in ValidVersions
        /\ ~args[p].dryRun
        /\ pc[p] = "Done"
        /\ local[p].currentMigrationNumber = args[p].version
        /\ Len(calls[p]) = 2

\* the check answered "not initialised" without an error
SeenUninitialised(p) ==
    /\ Len(calls[p]) >= 1
    /\ calls[p][1].err = NoErr
    /\ ~local[p].isInitialised

\* C7: when the check finds the tracking schema not initialised, the
\* initialisation script is the next request and is sent exactly once, so
\* before any commit, any current-version query and any migration script;
\* given an initial version v, the requests that follow are the commits of
\* 000..v in ascending order, each with mode up and for the target graph,
\* then the current-version query: no script is sent for these steps, and
\* the run sends the up script of none of these versions.
C7_BootstrapThenFastForward ==
    \A p \in Procs :
        SeenUninitialised(p) =>
            LET v == ParseInt(args[p].initVersion)
            IN  /\ pc[p] # "Bootstrap" => (Len(calls[p]) >= 2 /\ IsInitScript(calls[p][2]))
                /\ Indices(p, IsInitScript) \subseteq {2}
                /\ (pc[p] # "Bootstrap" /\ calls[p][2].err = NoErr /\ v.ok /\ v.val >= 0) =>
                      /\ \A j \in 0..v.val :
                            (j + 3 <= Len(calls[p])) =>
                                /\ CommitOf(calls[p][j + 3], args[p].graph, Sprintf03d(j), "up")
                                /\ (j + 3 < Len(calls[p])) => calls[p][j + 3].err = NoErr
                      /\ QueryAt(p) > 0 => QueryAt(p) = v.val + 4
                      /\ pc[p] \in {"TryStep", "Commit", "Done"} => QueryAt(p) > 0
                      /\ \A i \in Indices(p, IsMigrationScript) :
                            /\ i > QueryAt(p)
                            /\ \A j \in 0..v.val : ~ScriptOf(calls[p][i], Sprintf03d(j), "up")

\* a bootstrap fast-forwarded 000 and 001 and the run then migrated up
C7_Witness ==
    \E p \in Procs :
        /\ SeenUninitialised(p)
        /\ args[p].initVersion = Sprintf03d(1)
        /\ args[p].version = Sprintf03d(2)
        /\ pc[p] = "Done" /\ ~args[p].dryRun
        /\ Len(calls[p]) = 7

RecordsOf(graph) == { r \in store : r.graph_name = graph }

\* C8: a step of a Migrate run for one graph leaves the records of every
\* other graph, and the current version derived for it, as they were.
C8_HistoryIsolatedPerTarget ==
    [][ \A g \in Graphs :
            (\A p \in Procs : args[p].graph # g /\ args'[p].graph # g) =>
                /\ RecordsOf(g)' = RecordsOf(g)
                /\ CurrentVersions(g)' = CurrentVersions(g) ]_vars

\* a step of client p is a commit the store accepted
CommitAccepted(p) ==
    /\ Len(calls'[p]) = Len(calls[p]) + 1
    /\ IsUpsert(calls'[p][Len(calls'[p])])
    /\ calls'[p][Len(calls'[p])].err = NoErr

\* C9: the store is append-only under Migrate: every step keeps every
\* record written before it, and an accepted commit adds exactly one.
C9_StoreIsAppendOnly ==
    [][ /\ store \subseteq store'
        /\ \A p \in Procs : CommitAccepted(p) => Cardinality(store') = Cardinality(store) + 1 ]_vars

\* the store answered the upsert with a count of accepted vertices
Counted(c) == IsUpsert(c) /\ c.reply.err = NoErr /\ ~c.reply.Error

\* C10: a commit sends one vertex and succeeds only when the store reports
\* exactly one accepted vertex; a report of any other count is an error
\* (the schema-set-up error), the request is the last of the run, and
\* Migrate has failed with that error.
C10_CommitNeedsOneAccepted ==
    \A p \in Procs : \A i \in Indices(p, IsUpsert) :
        LET c == calls[p][i]
        IN  /\ c.request.id = MigrationID(c.request.migration_number, c.request.mode, c.request.created_at)
            /\ c.err = NoErr => (Counted(c) /\ c.reply.AcceptedVertices = 1)
            /\ (Counted(c) /\ c.reply.AcceptedVertices # 1) =>
                  /\ ErrorIs(c.err, ErrTigerGraphSchemaSetUpFailed)
                  /\ i = Len(calls[p])
                  /\ pc[p] = "Failed"
                  /\ ErrorIs(err[p], ErrTigerGraphSchemaSetUpFailed)

\* a step's script succeeded and the store then reported two accepted
\* vertices for its commit
C10_Witness ==
    \E p \in Procs : \E i \in Indices(p, IsUpsert) :
        /\ i > 1 /\ i > QueryAt(p) /\ QueryAt(p) > 0
        /\ IsMigrationScript(calls[p][i - 1]) /\ calls[p][i - 1].err = NoErr
        /\ Counted(calls[p][i]) /\ calls[p][i].reply.AcceptedVertices = 2
        /\ pc[p] = "Failed"

\* ------------------------------------------------ the current version
\* the current-version query of the run got a latest record
Answered(p) ==
    /\ QueryAt(p) > 0
    /\ calls[p][QueryAt(p)].reply.err = NoErr
    /\ ~calls[p][QueryAt(p)].reply.Error

\* the records the query of the run returned (none or one)
LatestSeen(p) == calls[p][QueryAt(p)].reply.LatestMigration

\* C11: GetCurrentMigrationNumber returns the empty version when the query
\* returns no record, the stored version when the latest record's mode is
\* up, and the stored version minus one, rendered with 3 digits, when its
\* mode is down and the version is a number; with latest record
\* {001, down} and desired 001 Migrate resolves, executes and commits
\* exactly step 001 up.
C11_CurrentVersionFromLatest ==
    \A p \in Procs :
        Answered(p) =>
            LET latest == LatestSeen(p)
                got    == calls[p][QueryAt(p)].err
                cur    == local[p].currentMigrationNumber
            IN  /\ latest = << >> => (got = NoErr /\ cur = << >>)
                /\ (latest # << >> /\ latest[1].mode = "up") =>
                       (got = NoErr /\ cur = latest[1].migration_number)
                /\ (latest # << >> /\ latest[1].mode = "down" /\ ParseInt(latest[1].migration_number).ok) =>
                       (got = NoErr /\ cur = Sprintf03d(ParseInt(latest[1].migration_number).val - 1))
                /\ ( /\ latest # << >>
                     /\ latest[1].mode = "down"
                     /\ latest[1].migration_number = Sprintf03d(1)
                     /\ args[p].version = Sprintf03d(1) ) =>
                       /\ local[p].migrationNumbers = << Sprintf03d(1) >>
                       /\ local[p].migrationMode = "up"
                       /\ ~args[p].dryRun =>
                             /\ Alternates(p, ExecLog(p))
                             /\ pc[p] = "Done" => Len(ExecLog(p)) = 2

\* the latest record was {001, down}, the desired version 001, and the run
\* returned success after the script and the commit of 001 up
C11_Witness ==
    \E p \in Procs :
        /\ Answered(p)
        /\ LatestSeen(p) # << >>
        /\ LatestSeen(p)[1].mode = "down"
        /\ LatestSeen(p)[1].migration_number = Sprintf03d(1)
        /\ args[p].version = Sprintf03d(1)
        /\ pc[p] = "Done" /\ ~args[p].dryRun
        /\ Len(ExecLog(p)) = 2
        /\ CommitOf(ExecLog(p)[2], args[p].graph, Sprintf03d(1), "up")

\* C12: when the latest record is a down record whose stored version is
\* not a number greater than the minimum version 000, resolving the
\* current version fails with the invalid-version error.
C12_DownAtMinimumIsInvalid ==
    \A p \in Procs :
        (Answered(p) /\ LatestSeen(p) # << >> /\ LatestSeen(p)[1].mode = "down") =>
            LET n == ParseInt(LatestSeen(p)[1].migration_number)
            IN  (~n.ok \/ n.val <= 0) =>
                    ErrorIs(calls[p][QueryAt(p)].err, ErrInvalidMigrationNumber)

\* C13: when the latest record's mode is neither up nor down, resolving
\* the current version fails with the invalid-version error, and Migrate
\* has failed with it after the query, having sent no script and no commit.
C13_InvalidModeFailsBeforeAnyStep ==
    \A p \in Procs :
        (Answered(p) /\ LatestSeen(p) # << >> /\ LatestSeen(p)[1].mode \notin {"up", "down"}) =>
            /\ calls[p][QueryAt(p)].err = ErrInvalidMigrationNumber
            /\ pc[p] = "Failed"
            /\ ErrorIs(err[p], ErrInvalidMigrationNumber)
            /\ QueryAt(p) = Len(calls[p])
            /\ \A i \in 1..Len(calls[p]) : calls[p][i].url \notin {"file", "upsert"}

\* a run met a latest record of mode "don" and failed after the check and
\* the query
C13_Witness ==
    \E p \in Procs :
        /\ Answered(p)
        /\ LatestSeen(p) # << >>
        /\ LatestSeen(p)[1].mode = "don"
        /\ ~args[p].dryRun
        /\ pc[p] = "Failed"
        /\ Len(calls[p]) = 2

\* ------------------------------------------------ the initialisation check
\* client p has the answer of a metadata request
Probed(p) == Len(calls[p]) >= 1 /\ calls[p][1].url = "metadata"

\* the response has no error flag and names the tracking graph
NamesMetadataGraph(meta) ==
    /\ meta.err = NoErr /\ ~meta.Error
    /\ meta.hasResults /\ meta.GraphName = MetadataGraphName

\* C14: whenever the metadata response has no error flag but its graph
\* name is missing or differs from the tracking graph's name (a response
\* without a result object included, and whatever its message),
\* CheckIsInitialised returns ErrUnknownInitialisationCheckFailure.
C14_AmbiguousProbeIsUnknown ==
    \A p \in Procs :
        Probed(p) =>
            LET meta == calls[p][1].reply
            IN  (meta.err = NoErr /\ ~meta.Error /\ ~NamesMetadataGraph(meta)) =>
                    /\ calls[p][1].err = ErrUnknownInitialisationCheckFailure
                    /\ ~local[p].isInitialised

\* C15: CheckIsInitialised returns (true, nil) exactly when the response
\* has no error flag and names the tracking graph; (false, nil) when the
\* response has the error flag and its message starts with the
\* graph-not-found prefix; ErrUnknownInitialisationCheckFailure for every
\* other response with the error flag; and the transport's error, with
\* result false, when the request failed.
C15_CheckIsInitialisedOutcomes ==
    \A p \in Procs :
        Probed(p) =>
            LET meta   == calls[p][1].reply
                result == local[p].isInitialised
                got    == calls[p][1].err
            IN  /\ (result /\ got = NoErr) <=> NamesMetadataGraph(meta)
                /\ result => got = NoErr
                /\ (meta.err = NoErr /\ meta.Error /\ HasPrefix(meta.Message, ExpectedFailurePrefix)) =>
                       (~result /\ got = NoErr)
                /\ (meta.err = NoErr /\ meta.Error /\ ~HasPrefix(meta.Message, ExpectedFailurePrefix)) =>
                       (~result /\ got = ErrUnknownInitialisationCheckFailure)
                /\ meta.err # NoErr => (~result /\ got = meta.err)

\* a response with the error flag and the graph-not-found message was
\* answered (false, nil)
C15_Witness ==
    \E p \in Procs :
        /\ Probed(p)
        /\ calls[p][1].reply.Error
        /\ HasPrefix(calls[p][1].reply.Message, ExpectedFailurePrefix)
        /\ Len(calls[p][1].reply.Message) > Len(ExpectedFailurePrefix)
        /\ ~local[p].isInitialised
        /\ pc[p] = "Done"

\* ------------------------------------------------ failures before the steps
\* C16: when the initialisation check fails, Migrate returns that error
\* and the check is the only request of the run: no script (not even the
\* initialisation script), no commit, no current-version query.
C16_FailedCheckStopsRun ==
    \A p \in Procs :
        (Probed(p) /\ calls[p][1].err # NoErr) =>
            /\ pc[p] = "Failed"
            /\ err[p] = calls[p][1].err
            /\ Len(calls[p]) = 1

\* a non-dry run failed on a response the check cannot interpret
C16_Witness ==
    \E p \in Procs :
        /\ Probed(p)
        /\ calls[p][1].err = ErrUnknownInitialisationCheckFailure
        /\ ~args[p].dryRun /\ args[p].version \in ValidVersions
        /\ pc[p] = "Failed"

C18_FailedBootstrapStopsRun ==
    \A p \in Procs :
        (Len(calls[p]) >= 2 /\ IsInitScript(calls[p][2]) /\ calls[p][2].err # NoErr) =>
            /\ pc[p] = "Failed"
            /\ err[p] = calls[p][2].err
            /\ Len(calls[p]) = 2

\* the initialisation script of a run with an initial version failed
C18_Witness ==
    \E p \in Procs :
        /\ Len(calls[p]) = 2 /\ IsInitScript(calls[p][2])
        /\ ErrorIs(calls[p][2].err, ErrGSQLFailure)
        /\ args[p].initVersion = Sprintf03d(1) /\ args[p].version \in ValidVersions
        /\ pc[p] = "Failed"

\* the fast-forward commits of the run that failed
FailedFastForwardAt(p) ==
    { i \in Indices(p, IsUpsert) : calls[p][i].err # NoErr /\ (QueryAt(p) = 0 \/ i < QueryAt(p)) }

\* C19: when a fast-forward commit fails, Migrate fails at once with the
\* commit's error wrapped: the failed commit is the last request of the
\* run (no further fast-forward commit, no current-version query, no
\* migration script), and the only script sent is the initialisation
\* script.
C19_FailedFastForwardStopsRun ==
    \A p \in Procs : \A i \in FailedFastForwardAt(p) :
        /\ pc[p] = "Failed"
        /\ err[p] = Wrap("failed to commit migration number",
                         << calls[p][i].request.migration_number >>, calls[p][i].err)
        /\ i = Len(calls[p])
        /\ QueryAt(p) = 0
        /\ { j \in 1..Len(calls[p]) : calls[p][j].url = "file" } = {2}
        /\ IsInitScript(calls[p][2])

\* the second fast-forward commit failed after the first was accepted
C19_Witness ==
    \E p \in Procs : \E i \in FailedFastForwardAt(p) :
        /\ i = 4
        /\ calls[p][3].err = NoErr /\ IsUpsert(calls[p][3])
        /\ pc[p] = "Failed"

\* ------------------------------------------------------ claims: the steps
\* a version as the specification defines it: a non-negative integer that
\* the 3-digit format renders in 3 digits
IsVersion(s) == ParseInt(s).ok /\ ParseInt(s).val >= 0 /\ ParseInt(s).val < 10 ^ PadWidth

\* the client has resolved its steps
HasResolved(p) == pc[p] \in {"Done", "Failed"}

\* the string is exactly 3 decimal digits that read n
ThreeDigitsOf(s, n) ==
    /\ Len(s) = PadWidth
    /\ \A i \in 1..PadWidth : IsDigit(s[i])
    /\ DigitsVal(s) = n

\* C20: for valid versions from < to, getMigrationsBetweenVersions returns
\* from+1, from+2, ..., to in ascending order, each as a 3-digit zero-padded
\* string whatever the padding of the inputs, with mode up and no error; the
\* list has to - from entries.
C20_UpStepsAscendPadded ==
    \A p \in Procs :
        LET from == local[p].currentMigrationNumber
            to   == args[p].version
            steps == local[p].migrationNumbers
        IN  (HasResolved(p) /\ IsVersion(from) /\ IsVersion(to)
               /\ ParseInt(from).val < ParseInt(to).val)
            => /\ pc[p] = "Done"
               /\ err[p] = NoErr
               /\ local[p].migrationMode = "up"
               /\ Len(steps) = ParseInt(to).val - ParseInt(from).val
               /\ \A k \in 1..Len(steps) : ThreeDigitsOf(steps[k], ParseInt(from).val + k)

\* from "9" to "0011": the steps are "010" and "011"
C20_Witness ==
    /\ pc[1] = "Done"
    /\ local[1].currentMigrationNumber = << "9" >>
    /\ args[1].version = << "0", "0", "1", "1" >>
    /\ local[1].migrationNumbers = << << "0", "1", "0" >>, << "0", "1", "1" >> >>
    /\ local[1].migrationMode = "up"

\* C21: for valid versions from > to, getMigrationsBetweenVersions returns
\* from, from-1, ..., to+1 in descending order (from included, to excluded),
\* with mode down and no error; the list has from - to entries.
C21_DownStepsDescend ==
    \A p \in Procs :
        LET from == local[p].currentMigrationNumber
            to   == args[p].version
            steps == local[p].migrationNumbers
        IN  (HasResolved(p) /\ IsVersion(from) /\ IsVersion(to)
               /\ ParseInt(from).val > ParseInt(to).val)
            => /\ pc[p] = "Done"
               /\ err[p] = NoErr
               /\ local[p].migrationMode = "down"
               /\ Len(steps) = ParseInt(from).val - ParseInt(to).val
               /\ \A k \in 1..Len(steps) : ThreeDigitsOf(steps[k], ParseInt(from).val - k + 1)

\* from "0011" to "9": the steps are "011" and "010"
C21_Witness ==
    /\ pc[1] = "Done"
    /\ local[1].currentMigrationNumber = << "0", "0", "1", "1" >>
    /\ args[1].version = << "9" >>
    /\ local[1].migrationNumbers = << << "0", "1", "1" >>, << "0", "1", "0" >> >>
    /\ local[1].migrationMode = "down"

\* C22: with an empty from and a valid to = n, getMigrationsBetweenVersions
\* returns 000..n, n + 1 entries in ascending order, with mode up and no
\* error.
C22_EmptyFromStartsAtZero ==
    \A p \in Procs :
        LET to    == args[p].version
            steps == local[p].migrationNumbers
        IN  (HasResolved(p) /\ local[p].currentMigrationNumber = << >> /\ IsVersion(to))
            => /\ pc[p] = "Done"
               /\ err[p] = NoErr
               /\ local[p].migrationMode = "up"
               /\ Len(steps) = ParseInt(to).val + 1
               /\ \A k \in 1..Len(steps) : ThreeDigitsOf(steps[k], k - 1)

\* from "" to "2": the steps are "000", "001", "002"
C22_Witness ==
    /\ pc[1] = "Done"
    /\ local[1].currentMigrationNumber = << >>
    /\ args[1].version = << "2" >>
    /\ local[1].migrationNumbers = << << "0", "0", "0" >>, << "0", "0", "1" >>, << "0", "0", "2" >> >>

\* C23: for a valid version v, getMigrationsBetweenVersions(v, v) returns
\* the empty list, mode up and no error.
C23_SameVersionIsNoWork ==
    \A p \in Procs :
        LET from == local[p].currentMigrationNumber
            to   == args[p].version
        IN  (HasResolved(p) /\ IsVersion(from) /\ IsVersion(to)
               /\ ParseInt(from).val = ParseInt(to).val)
            => /\ pc[p] = "Done"
               /\ err[p] = NoErr
               /\ local[p].migrationMode = "up"
               /\ local[p].migrationNumbers = << >>

\* from "099" to "099": resolved, nothing to do
C23_Witness ==
    /\ pc[1] = "Done"
    /\ local[1].currentMigrationNumber = << "0", "9", "9" >>
    /\ args[1].version = << "0", "9", "9" >>
    /\ local[1].migrationNumbers = << >>
    /\ local[1].migrationMode = "up"

\* an optional sign and then decimal digits, at least one
IsNumeric(s) ==
    LET body == IF s # << >> /\ Head(s) \in {"+", "-"} THEN Tail(s) ELSE s
    IN  body # << >> /\ \A i \in 1..Len(body) : IsDigit(body[i])

\* C24: getMigrationsBetweenVersions fails with ErrInvalidMigrationNumber,
\* an empty list and an empty mode when to is empty, whatever from is, and
\* when a non-empty from or to is not numeric.
C24_InvalidVersionsFail ==
    \A p \in Procs :
        LET from == local[p].currentMigrationNumber
            to   == args[p].version
        IN  (HasResolved(p)
               /\ \/ to = << >>
                  \/ from # << >> /\ ~IsNumeric(from)
                  \/ to # << >> /\ ~IsNumeric(to))
            => /\ pc[p] = "Failed"
               /\ err[p] = ErrInvalidMigrationNumber
               /\ local[p].migrationNumbers = << >>
               /\ local[p].migrationMode = ""

\* from "001" to "00a" has failed
C24_Witness ==
    /\ pc[1] = "Failed"
    /\ local[1].currentMigrationNumber = << "0", "0", "1" >>
    /\ args[1].version = NonNumeric
    /\ err[1] = ErrInvalidMigrationNumber

\* the string parses to an integer below zero
IsNegative(s) == ParseInt(s).ok /\ ParseInt(s).val < 0

\* C25: getMigrationsBetweenVersions rejects with the invalid-version error
\* a from or to that parses to a negative integer, and never returns a step
\* with a negative version.
C25_NegativeVersionsRejected ==
    \A p \in Procs :
        LET from == local[p].currentMigrationNumber
            to   == args[p].version
            steps == local[p].migrationNumbers
        IN  HasResolved(p)
            => /\ (IsNegative(from) \/ IsNegative(to))
                     => pc[p] = "Failed" /\ err[p] = ErrInvalidMigrationNumber
               /\ \A k \in 1..Len(steps) : ~IsNegative(steps[k])

\* --------------------------------------------------- claims: the decrement
\* the string is the number n as "%03d" writes it: a minus sign for a
\* negative n, then digits, padded with zeros up to 3 characters in all and
\* no further
RendersPadded(s, n) ==
    LET body == IF s # << >> /\ Head(s) = "-" THEN Tail(s) ELSE s
    IN  /\ body # << >> /\ \A i \in 1..Len(body) : IsDigit(body[i])
        /\ (IF body = s THEN DigitsVal(body) ELSE -DigitsVal(body)) = n
        /\ body = s <=> n >= 0
        /\ Len(s) >= PadWidth
        /\ Len(s) > PadWidth => Head(body) # "0"

\* the client has its decrement behind it
HasDecremented(p) == pc[p] \in {"Done", "Failed"}

\* C26: decrementMigrationNumber(v) returns v - 1 in the 3-digit zero-padded
\* rendering for every numeric v, below zero too (no floor), and fails with
\* ErrInvalidMigrationNumber only when v does not parse as an integer.
C26_DecrementHasNoFloor ==
    \A p \in Procs : \A latestMigration \in store :
        LET v == latestMigration.migration_number
        IN  HasDecremented(p)
            => IF ParseInt(v).ok
               THEN /\ pc[p] = "Done"
                    /\ err[p] = NoErr
                    /\ RendersPadded(local[p].currentMigrationNumber, ParseInt(v).val - 1)
               ELSE /\ pc[p] = "Failed"
                    /\ err[p] = ErrInvalidMigrationNumber
                    /\ local[p].currentMigrationNumber = << >>

\* decrement("000") has returned "-01" and no error
C26_Witness ==
    /\ pc[1] = "Done"
    /\ \E latestMigration \in store : latestMigration.migration_number = << "0", "0", "0" >>
    /\ local[1].currentMigrationNumber = << "-", "0", "1" >>
    /\ err[1] = NoErr

\* ------------------------------------------- claims: the missing artifact
\* the run has failed in the execution phase although the query, the
\* resolution and every request made after them succeeded
FailedWithoutFailedRequest(p) ==
    /\ pc[p] = "Failed" /\ ~args[p].dryRun
    /\ QueryAt(p) > 0 /\ calls[p][QueryAt(p)].err = NoErr
    /\ Resolved(p).err = NoErr
    /\ \A i \in 1..Len(ExecLog(p)) : ExecLog(p)[i].err = NoErr

\* the store holds a record of step (number, mode) for graph
Recorded(graph, number, mode) ==
    \E r \in store : r.graph_name = graph /\ r.migration_number = number /\ r.mode = mode

Names(e, string) == \E k \in 1..Len(e) : \E i \in 1..Len(e[k].args) : e[k].args[i] = string

\* C28: the partial-failure error (script executed, commit failed) names
\* the version and the direction of the step that failed to commit, carries
\* the instruction to set the initial-version override, and wraps the
\* commit's error so that its kind is still recognisable.
C28_PartialFailureNamesStep ==
    \A p \in Procs : \A i \in FailedCommitAt(p) :
        LET failed == ExecLog(p)[i]
        IN  pc[p] = "Failed" =>
                /\ err[p][1].msg = trackMigrationFailureTemplate
                /\ Names(err[p], failed.request.migration_number)
                /\ Names(err[p], ModeChars(failed.request.mode))
                /\ \A kind \in {ErrNonOK, ErrTigerGraphError, ErrTigerGraphSchemaSetUpFailed} :
                       ErrorIs(failed.err, kind) => ErrorIs(err[p], kind)

\* ------------------------------------------ claims: dry run and real run
\* directory dir has an artifact for step (number, mode)
HasArtifact(dir, number, mode) == FirstMatch(ReadDir(dir).files, number, mode) # << >>

\* C29: whenever a real run fails with a resolution or validation error, a
\* resolved step without an artifact included, the dry run for the same
\* inputs, remote state and migration directory fails with the same error:
\* a dry run that returned success has a plan of which every step has its
\* artifact, whichever of the directories the caller passed.
C29_DryRunRejectsWhatRealRunRejects ==
    \A p \in Procs :
        (pc[p] = "Done" /\ args[p].dryRun) =>
            \A dir \in MigrationDirs : \A k \in 1..Len(Resolved(p).result) :
                HasArtifact(dir, Resolved(p).result[k], Resolved(p).mode)

\* ------------------------------------------------------ claims: no retry
IsProbe(c) == c.url = "metadata"

\* no two requests of the log that pass the test are for the same thing
OnceEach(log, Test(_), What(_)) ==
    \A i, j \in 1..Len(log) :
        (i < j /\ Test(log[i]) /\ Test(log[j])) => What(log[i]) # What(log[j])

FileOf(c) == c.request.file

StepOf(c) == << c.request.migration_number, c.request.mode >>

\* C30: there is no retry. Within one Migrate call the initialisation check
\* is queried exactly once, as the first request; the bootstrap script is
\* sent at most once; the script of each step is sent at most once and its
\* commit attempted at most once; a request that ended in an error is the
\* last request of the call.
C30_NoRetry ==
    \A p \in Procs :
        LET log == calls[p]
        IN  /\ pc[p] \notin {"idle", "CheckInit"} => Indices(p, IsProbe) = {1}
            /\ pc[p] \in {"idle", "CheckInit"} => log = << >>
            /\ Cardinality(Indices(p, IsInitScript)) <= 1
            /\ Cardinality(Indices(p, IsQuery)) <= 1
            /\ OnceEach(log, IsMigrationScript, FileOf)
            /\ OnceEach(log, IsUpsert, StepOf)
            /\ \A i \in 1..Len(log) :
                  log[i].err # NoErr => i = Len(log) /\ pc[p] = "Failed"

\* a run that bootstrapped, fast-forwarded and ran two steps has returned
C30_Witness ==
    \E p \in Procs :
        /\ pc[p] = "Done"
        /\ Indices(p, IsInitScript) # {}
        /\ Cardinality(Indices(p, IsMigrationScript)) >= 2
        /\ Cardinality(Indices(p, IsUpsert)) >= 3

\* ------------------------------------------- claims: the order of a way down
\* C40: the steps of a way down are in strictly descending numeric order
\* for every pair of versions the parser accepts, versions rendered wider
\* than three digits and negative values included.
C40_DownOrderIsNumeric ==
    \A p \in Procs :
        LET from  == local[p].currentMigrationNumber
            to    == args[p].version
            steps == local[p].migrationNumbers
        IN  (HasResolved(p) /\ ParseInt(from).ok /\ ParseInt(to).ok
               /\ ParseInt(from).val > ParseInt(to).val)
            => /\ Len(steps) = ParseInt(from).val - ParseInt(to).val
               /\ \A k \in 1..Len(steps) :
                     ParseInt(steps[k]).ok /\ ParseInt(steps[k]).val = ParseInt(from).val - k + 1

\* --------------------------------------- claims: the execution phase
\* C36: at every point of the execution phase the scripts sent and the
\* commits issued are those of a prefix of the resolved steps, in order;
\* committed <= executed <= committed + 1; and a commit for a version is
\* issued only right after the successful script of that version.
C36_CommitsTrailScriptsByOne ==
    \A p \in Procs :
        (QueryAt(p) > 0 /\ ~args[p].dryRun) =>
            LET log       == ExecLog(p)
                executed  == Count(log, IsMigrationScript)
                committed == Count(log, IsUpsert)
            IN  /\ Alternates(p, log)
                /\ committed <= executed /\ executed <= committed + 1
                /\ \A i \in 1..Len(log) :
                      IsUpsert(log[i]) =>
                          /\ i > 1
                          /\ IsMigrationScript(log[i - 1]) /\ log[i - 1].err = NoErr
                          /\ FileMatches(log[i - 1].request.file,
                                         log[i].request.migration_number, log[i].request.mode)

\* the second step's script has run and its commit is still to come
C36_Witness ==
    \E p \in Procs :
        /\ pc[p] = "Commit" /\ ~args[p].dryRun
        /\ Len(ExecLog(p)) = 3
        /\ Count(ExecLog(p), IsMigrationScript) = 2
        /\ Count(ExecLog(p), IsUpsert) = 1

\* ---------------------------------------------------- claims: termination
Terminal == {"Done", "Failed"}

\* the requests a call may make: the check, the initialisation script, one
\* commit per fast-forwarded version, the query, and a script and a commit
\* per resolved step
CallBound(p) ==
    3 + Len(FastForwardPlan(args[p].initVersion).result)
      + (IF QueryAt(p) > 0 THEN 2 * Len(Resolved(p).result) ELSE 0)

\* C37: every Migrate call terminates. It reaches Done or Failed, after a
\* number of requests bounded by those of the bootstrap plus twice the
\* number of resolved steps, and once Done or Failed it makes no further
\* request.
C37_MigrateTerminates ==
    /\ [](\A p \in Procs : Len(calls[p]) <= CallBound(p))
    /\ [][\A p \in Procs : pc[p] \in Terminal => calls'[p] \in {calls[p], << >>}]_vars
    /\ \A p \in Procs : (pc[p] \in Running) ~> (pc[p] \in Terminal)

\* a run that bootstrapped and ran two steps has returned with every
\* request of its bound made
C37_Witness ==
    \E p \in Procs :
        /\ pc[p] = "Done"
        /\ Indices(p, IsInitScript) # {}
        /\ Len(Resolved(p).result) >= 2
        /\ Len(calls[p]) = CallBound(p)

\* --------------------------------------------------- claims: round trip
\* both calls of a round trip have returned success
RoundTripDone == pc[1] = "Done" /\ pc[2] = "Done" /\ args[2].version = local[1].currentMigrationNumber

\* C38: from current version c, a successful Migrate up to d > c followed
\* by a successful Migrate down to c runs in the second call exactly the
\* down scripts of the versions whose up scripts the first call ran, in
\* reverse order, and leaves the derived current version equal to c.
C38_RoundTripRestoresVersion ==
    RoundTripDone =>
        LET up   == local[1].migrationNumbers
            down == ExecLog(2)
            n    == Len(up)
        IN  /\ Len(down) = 2 * n
            /\ \A k \in 1..n : ScriptOf(down[2 * k - 1], up[n - k + 1], "down")
            /\ CurrentVersions(args[1].graph) =
                  { [result |-> local[1].currentMigrationNumber, err |-> NoErr] }

\* ------------------------------------------------ claims: overlapping runs
\* a request of client p that ran a script with success
RanScript(p, file) ==
    \E i \in 1..Len(calls[p]) :
        calls[p][i].url = "file" /\ calls[p][i].request.file = file /\ calls[p][i].err = NoErr

\* C34: the core does not arbitrate between runs. A run that read the
\* schema as uninitialised sends the bootstrap script, and a run executes
\* and commits every step it resolved from the current version it read,
\* whatever another run for the same graph does in the meantime; so two
\* overlapping runs execute the same script twice and leave two records
\* for one step, and both execute the bootstrap script.
C34_RunsDoNotArbitrate ==
    \A p \in Procs :
        /\ (pc[p] \in {"FastForward", "GetCurrent", "TryStep", "Commit", "Done"}
               /\ ~local[p].isInitialised)
            => RanScript(p, InitFile)
        /\ InExecution(p) =>
               LET log == ExecLog(p)
               IN  /\ Alternates(p, log)
                   /\ pc[p] = "Done" => Len(log) = 2 * Len(Resolved(p).result)

\* both runs have returned success, both ran the bootstrap script and the
\* same migration script, and the store has two records of that step
C34_Witness ==
    /\ pc[1] = "Done" /\ pc[2] = "Done"
    /\ RanScript(1, InitFile) /\ RanScript(2, InitFile)
    /\ \E i \in 1..Len(calls[1]) :
          /\ IsMigrationScript(calls[1][i])
          /\ RanScript(1, calls[1][i].request.file)
          /\ RanScript(2, calls[1][i].request.file)
    /\ \E r1, r2 \in store :
          /\ r1 # r2
          /\ r1.graph_name = r2.graph_name
          /\ r1.migration_number = r2.migration_number
          /\ r1.mode = r2.mode

C39_ArtifactHasDottedDirection ==
    \A p \in Procs :
        \A i \in 1..Len(calls[p]) :
            IsMigrationScript(calls[p][i]) =>
                /\ HasPrefix(calls[p][i].request.file,
                             StepAt(local[p].migrationNumbers, local[p].idx) \o << "_" >>)
                /\ HasSuffix(calls[p][i].request.file,
                             << "." >> \o ModeChars(local[p].migrationMode) \o GsqlExt)
                /\ calls[p][i].request.file \notin {BackupFile, ShutdownFile}

\* ----------------------------------------------------------- claims: Auth
\* request c got a token for graph
GotToken(c, graph) == c.url = "requesttoken" /\ c.request.graph = graph /\ c.err = NoErr

\* the call of Auth this step is, if it is one, was client p's for graph
AuthStepOf(p, graph) ==
    /\ args'[p].graph = graph
    /\ \A q \in Procs \ {p} : calls'[q] = calls[q] /\ local'[q] = local[q]
    /\ IF graph \in DOMAIN local[p].Tokens /\ local[p].Tokens[graph].Expires > now
       THEN calls'[p] = calls[p] /\ local'[p] = local[p] /\ err'[p] = NoErr
       ELSE /\ Len(calls'[p]) = Len(calls[p]) + 1
            /\ SubSeq(calls'[p], 1, Len(calls[p])) = calls[p]
            /\ LET c == calls'[p][Len(calls'[p])]
               IN  /\ c.url = "requesttoken"
                   /\ c.request.graph = graph
                   /\ err'[p] = c.err
                   /\ IF c.err = NoErr
                      THEN local'[p].Tokens =
                               PutToken(local[p].Tokens, graph,
                                        [Value |-> c.reply.token, Expires |-> c.reply.expiration])
                      ELSE local'[p] = local[p]

\* C31: Auth(graph) sends a token request exactly when the client holds no
\* token for the graph that expires strictly after the current time, and
\* a successful request replaces the token held for the graph; so of the
\* requests that got a token for a graph at most one, the last, got one
\* that has not expired, and it is the one the client holds.
C31_AuthRequestsWhenNoFreshToken ==
    /\ [][runs' = runs + 1 => \E p \in Procs, graph \in Graphs : AuthStepOf(p, graph)]_vars
    /\ [](\A p \in Procs, graph \in Graphs :
            LET got   == { i \in 1..Len(calls[p]) : GotToken(calls[p][i], graph) }
                fresh == { i \in got : calls[p][i].reply.expiration > now }
            IN  /\ Cardinality(fresh) <= 1
                /\ \A i \in fresh : \A k \in got : k <= i
                /\ (graph \in DOMAIN local[p].Tokens) <=> got # {}
                /\ \A i \in got :
                      (\A k \in got : k <= i) =>
                          local[p].Tokens[graph] =
                              [Value |-> calls[p][i].reply.token, Expires |-> calls[p][i].reply.expiration])

\* three calls of Auth for one graph by one client: the first got a token
\* already expired, the second asked again and got one that lasts, the
\* third asked nothing
C31_Witness ==
    \E p \in Procs :
        /\ runs = 3
        /\ \A q \in Procs \ {p} : calls[q] = << >> /\ local[q].Tokens = NoTokens
        /\ Len(calls[p]) = 2
        /\ GotToken(calls[p][1], SeedGraph) /\ calls[p][1].reply.expiration = 0
        /\ GotToken(calls[p][2], SeedGraph) /\ calls[p][2].reply.expiration > now
        /\ pc[p] = "Done"
        /\ args[p].graph = SeedGraph

\* ----------------------------------------------- claims: loading jobs
\* the JSON of each line, a newline between two of them
RECURSIVE JoinedJson(_)
JoinedJson(lines) ==
    IF lines = << >> THEN << >>
    ELSE IF Len(lines) = 1 THEN JsonMarshal(lines[1]).bytes
    ELSE JsonMarshal(lines[1]).bytes \o << "\n" >> \o JoinedJson(Tail(lines))

Encodable(lines) == \A i \in 1..Len(lines) : JsonMarshal(lines[i]).err = NoErr

LoadingJobRequests(p) == { i \in 1..Len(calls[p]) : calls[p][i].url = "ddl" }

TokenRefused(p) == \E i \in 1..Len(calls[p]) : calls[p][i].url = "requesttoken" /\ calls[p][i].err # NoErr

\* C33: RunLoadingJobJSONL sends one request to the loading job, never
\* more, and one whenever the lines could be encoded and the client got
\* its token; its body is the JSON of each line joined by single newlines,
\* none at the end; the call succeeds if and only if the response has
\* exactly one result whose validLine is the number of lines sent; another
\* number of results gives ErrLoadingJobRequestFailed, another validLine
\* ErrLoadingJobPartialFailure, a status other than 200 ErrNonOK.
C33_LoadingJobVerdict ==
    \A p \in Procs :
        pc[p] \in Terminal =>
            LET lines == args[p].lines
                sent  == LoadingJobRequests(p)
            IN  /\ Cardinality(sent) <= 1
                /\ (Encodable(lines) /\ ~TokenRefused(p)) <=> Cardinality(sent) = 1
                /\ sent = {} => pc[p] = "Failed"
                /\ \A i \in sent :
                      LET c    == calls[p][i]
                          r    == c.reply
                          read == r.sent /\ r.status = "200" /\ r.json
                          body == c.request.body
                      IN  /\ i = Len(calls[p])
                          /\ body = JoinedJson(lines)
                          /\ body # << >> => body[Len(body)] # "\n"
                          /\ Cardinality({ k \in 1..Len(body) : body[k] = "\n" })
                               = (IF Len(lines) = 0 THEN 0 ELSE Len(lines) - 1)
                          /\ (pc[p] = "Done" /\ err[p] = NoErr)
                               <=> (read /\ Len(r.Results) = 1 /\ r.Results[1] = Len(lines))
                          /\ pc[p] = "Done" \/ (pc[p] = "Failed" /\ err[p] # NoErr)
                          /\ (read /\ Len(r.Results) # 1) => ErrorIs(err[p], ErrLoadingJobRequestFailed)
                          /\ (read /\ Len(r.Results) = 1 /\ r.Results[1] # Len(lines))
                               => ErrorIs(err[p], ErrLoadingJobPartialFailure)
                          /\ (r.sent /\ r.status # "200") => ErrorIs(err[p], ErrNonOK)

\* two lines were sent in one request and the one result counts one valid
\* line: a partial failure
C33_Witness ==
    \E p \in Procs :
        /\ pc[p] = "Failed"
        /\ Len(args[p].lines) = 2
        /\ Cardinality(LoadingJobRequests(p)) = 1
        /\ \E i \in LoadingJobRequests(p) :
              /\ calls[p][i].reply.Results = << 1 >>
              /\ Cardinality({ k \in 1..Len(calls[p][i].request.body) : calls[p][i].request.body[k] = "\n" }) = 1
        /\ ErrorIs(err[p], ErrLoadingJobPartialFailure)

\* ---------------------------------------------------- claims: cancellation
\* C35: once the ctx of a Migrate call that is not a dry run and is still
\* under way is cancelled, the call makes at most one more request, which
\* fails; the call returns an error, never success; nothing more is
\* stored; and no commit is issued but right after the successful script
\* of its step.
C35_CancellationSurfaces ==
    /\ [][\A p \in Procs :
            (args[p].ctx = "cancelled" /\ pc[p] \in Running /\ ~args[p].dryRun) =>
                /\ pc'[p] # "Done"
                /\ store' = store
                /\ calls'[p] # calls[p] =>
                      /\ Len(calls'[p]) = Len(calls[p]) + 1
                      /\ calls'[p][Len(calls'[p])].err # NoErr
                      /\ pc'[p] = "Failed"
                      /\ err'[p] # NoErr]_vars
    /\ [](\A p \in Procs :
            (args[p].ctx = "cancelled" /\ ~args[p].dryRun) =>
                /\ pc[p] \in Running \cup {"Failed"}
                /\ pc[p] = "Failed" => err[p] # NoErr
                /\ \A i \in 1..Len(calls[p]) :
                      (IsUpsert(calls[p][i]) /\ QueryAt(p) > 0 /\ i > QueryAt(p)) =>
                          /\ IsMigrationScript(calls[p][i - 1])
                          /\ calls[p][i - 1].err = NoErr
                          /\ FileMatches(calls[p][i - 1].request.file,
                                         calls[p][i].request.migration_number, calls[p][i].request.mode))

\* the ctx was cancelled between two steps: the first step is committed,
\* the script of the second could not be sent and the call has failed
C35_Witness ==
    \E p \in Procs :
        /\ args[p].ctx = "cancelled" /\ ~args[p].dryRun
        /\ pc[p] = "Failed" /\ err[p] # NoErr
        /\ Len(ExecLog(p)) = 3
        /\ Count(ExecLog(p), IsUpsert) = 1
        /\ Count(ExecLog(p), IsMigrationScript) = 1
        /\ LET last == calls[p][Len(calls[p])]
           IN  IsMigrationScript(last) /\ ~last.reply.sent

====
